---- MODULE Spec2Model ----
(***************************************************************************)
(* A model of the metrics agent: the Anomaly / Metric data model, the four *)
(* detectors (spike, statistical, threshold, pattern) as operators that    *)
(* compute what the Python code computes, and the collector's              *)
(* collect_and_analyze cycle as a state machine.                           *)
(*                                                                         *)
(* Numbers.  Sample values and configured bounds are integers.  Every      *)
(* quotient the code forms is kept exact: a rational is a pair <<n, d>>    *)
(* with d > 0, and a confidence is a record [num, den, rad] standing for   *)
(* num / (den * sqrt(rad)), which is closed under the quotients by a       *)
(* standard deviation that the detectors form.  Comparisons are made by    *)
(* cross-multiplication, so no rounding is modelled.  A sample is finite  *)
(* or NaN (the pattern detector's runs include NaN samples); infinite      *)
(* samples are not modelled.                                               *)
(*                                                                         *)
(* Optional values.  None is <<>> and a present value v is <<v>>.          *)
(***************************************************************************)
EXTENDS Integers, Sequences, FiniteSets, TLC

VARIABLES
    pc,             \* position of collect_and_analyze
    metrics_to_monitor, \* configured metric names, in configured order
    llm_enabled,    \* llm_validator.is_enabled()
    detectors,      \* self.detectors: the enabled detectors, in order
    metric_idx,     \* index of the metric the for loop is at
    cur_metric,     \* the Metric just fetched (None when there is none)
    all_anomalies,  \* the list collect_and_analyze builds and returns
    next_id,        \* number of anomaly ids handed out so far (uuid4 freshness)
    validated,      \* validate_anomalies: what each turn of its loop appended
    responses,      \* history: what the metrics store answered, per metric
    raw_batch,      \* history: the batch as aggregated, before enrichment
    enrich_state,   \* history: "off", "running", "ok", "raised"
    det_in,         \* detector runs: the call's input (detector, config, metric)
    det_out,        \* detector runs: the call's outcome
    det_pc,         \* detector runs: "ready", "done", then "again" or "exported"
    det_prev,       \* detector runs: the outcome of the earlier of two calls
    exported,       \* detector runs: the records sent downstream, None before
    run_pc,         \* position of MetricsAgent.run ("off" when it is not running)
    shutdown_requested, \* the module-level flag of main.py
    iteration,      \* run's local counter of iterations begun
    check_interval, \* self.check_interval, in seconds
    wait_left,      \* turns the interruptible sleep loop has still to make
    cycle_result,   \* what collect_and_analyze gave this iteration
    posts,          \* history: number of requests.post calls made
    delivery        \* history: how the last requests.post call ended

vars == <<pc, metrics_to_monitor, llm_enabled, detectors, metric_idx, cur_metric,
          all_anomalies, next_id, validated, responses, raw_batch,
          enrich_state, det_in, det_out, det_pc, det_prev, exported,
          run_pc, shutdown_requested, iteration, check_interval, wait_left,
          cycle_result, posts, delivery>>

orch_vars == <<pc, metrics_to_monitor, llm_enabled, detectors, metric_idx, cur_metric,
               all_anomalies, next_id, validated, responses, raw_batch,
               enrich_state>>

det_vars == <<det_in, det_out, det_pc, det_prev, exported>>

run_vars == <<run_pc, shutdown_requested, iteration, check_interval, wait_left,
              cycle_result, posts, delivery>>

----------------------------------------------------------------------------
(* Bounds of the model. *)

MaxMetrics == 2
MaxSpikeLen == 3
MaxThreshLen == 2
MaxThreshVal == 2
MaxBoundKeys == 2
MaxStatTail == 2
MaxPatternLen == 6
MaxConfNum == 5
MaxNanHead == 2

----------------------------------------------------------------------------
(* Arithmetic helpers. *)

Abs(x) == IF x < 0 THEN -x ELSE x

Sgn(x) == IF x > 0 THEN 1 ELSE IF x < 0 THEN -1 ELSE 0

None == <<>>

Some(v) == <<v>>

EmptyDict == [k \in {} |-> 0]

DictGet(d, k) == IF k \in DOMAIN d THEN Some(d[k]) ELSE None

RECURSIVE SumSeq(_)
SumSeq(s) == IF s = <<>> THEN 0 ELSE Head(s) + SumSeq(Tail(s))

RECURSIVE Flatten(_)
Flatten(ss) == IF ss = <<>> THEN <<>> ELSE Head(ss) \o Flatten(Tail(ss))

\* a rational <<n, d>>, d > 0
RatLe(a, b) == a[1] * b[2] <= b[1] * a[2]

RatLt(a, b) == a[1] * b[2] < b[1] * a[2]

RatEq(a, b) == a[1] * b[2] = b[1] * a[2]

RatAbs(a) == <<Abs(a[1]), a[2]>>

RECURSIVE Gcd(_, _)
Gcd(a, b) == IF b = 0 THEN a ELSE Gcd(b, a % b)

\* a confidence num / (den * sqrt(rad)), den > 0, rad > 0, num / den in
\* lowest terms
Conf(n, d, r) ==
    LET g == Gcd(Abs(n), d)
    IN  [num |-> n \div g, den |-> d \div g, rad |-> r]

ConfOne == Conf(1, 1, 1)

\* float('nan'), which the store returns for a sample such as 0/0: as a sample,
\* an integer that no finite sample takes; as a confidence, the quotient 0/0.
\* Every comparison with it is false.
NaN == -(2^20)

ConfNaN == [num |-> 0, den |-> 0, rad |-> 1]

ConfGeZero(c) == c.den # 0 /\ c.num >= 0

ConfLeOne(c) == c.den # 0 /\ (c.num <= 0 \/ c.num * c.num <= c.den * c.den * c.rad)

\* p1 / q1 <= p2 / q2 for naturals with q1, q2 > 0, by comparing the continued
\* fractions: no product is formed, so nothing leaves the 32-bit integers
RECURSIVE FracLe(_, _, _, _)
FracLe(p1, q1, p2, q2) ==
    IF p1 \div q1 # p2 \div q2 THEN p1 \div q1 < p2 \div q2
    ELSE IF p1 % q1 = 0 THEN TRUE
    ELSE IF p2 % q2 = 0 THEN FALSE
    ELSE FracLe(q2, p2 % q2, q1, p1 % q1)

\* a <= b for two non-negative confidences
ConfLe(a, b) == FracLe(a.num * a.num, a.den * a.den * a.rad,
                       b.num * b.num, b.den * b.den * b.rad)

ConfLt(a, b) == ~ConfLe(b, a)

----------------------------------------------------------------------------
(* models/anomaly.py *)

AnomalyTypeValue ==
    [SPIKE |-> "spike", DROP |-> "drop",
     STATISTICAL_OUTLIER |-> "statistical_outlier",
     THRESHOLD_BREACH |-> "threshold_breach",
     PATTERN_ANOMALY |-> "pattern_anomaly"]

SeverityValue ==
    [LOW |-> "low", MEDIUM |-> "medium", HIGH |-> "high", CRITICAL |-> "critical"]

\* AnomalyType(value) and Severity(value): the member with that value
AnomalyTypeOf(v) == CHOOSE m \in DOMAIN AnomalyTypeValue : AnomalyTypeValue[m] = v

SeverityOf(v) == CHOOSE m \in DOMAIN SeverityValue : SeverityValue[m] = v

\* datetime.isoformat() and datetime.fromisoformat(): a datetime t is an
\* integer, its ISO text is the tagged pair <<"iso", t>>
IsoFormat(t) == <<"iso", t>>

FromIsoFormat(s) == s[2]

\* __post_init__: the confidence check
PostInitRejectsLoose(confidence) == ~ConfGeZero(confidence)

PostInitRejects(confidence) == ~(ConfGeZero(confidence) /\ ConfLeOne(confidence))

\* The dataclass constructor: the fields given, the defaults for the others,
\* then __post_init__.  The outcome is [ok, val]: ok = FALSE is the ValueError.
NewAnomaly(f) ==
    LET a == [metric_name   |-> f.metric_name,
              anomaly_type  |-> f.anomaly_type,
              severity      |-> f.severity,
              timestamp     |-> f.timestamp,
              value         |-> f.value,
              detector_name |-> f.detector_name,
              confidence    |-> f.confidence,
              expected_value |-> f.expected_value,
              metadata      |-> f.metadata,
              labels        |-> IF "labels" \in DOMAIN f THEN f.labels ELSE EmptyDict,
              anomaly_id    |-> IF "anomaly_id" \in DOMAIN f THEN f.anomaly_id ELSE 0,
              start_time    |-> IF "start_time" \in DOMAIN f THEN f.start_time ELSE None,
              end_time      |-> IF "end_time" \in DOMAIN f THEN f.end_time ELSE None,
              llm_validated |-> FALSE,
              llm_status    |-> None]
    IN  IF PostInitRejects(f.confidence)
        THEN [ok |-> FALSE, val |-> a]
        ELSE [ok |-> TRUE, val |-> a]

\* anomaly_id's default factory, uuid4(): every anomaly created gets a token no
\* other anomaly has.  The k-th anomaly a call creates gets base + k.
Stamp(anoms, base) ==
    [k \in 1..Len(anoms) |-> [anoms[k] EXCEPT !.anomaly_id = base + k]]

\* the deviation property: None without an expected value or when it is zero
Deviation(a) ==
    IF a.expected_value = None THEN None
    ELSE LET e == a.expected_value[1]
         IN  IF e[1] = 0 THEN None
             ELSE Some(<<(a.value * e[2] - e[1]) * 100 * Sgn(e[1]), Abs(e[1])>>)

----------------------------------------------------------------------------
(* models/metric.py *)

Metric(name, values) == [name |-> name, metric_type |-> "gauge", values |-> values]

MetricValue(t, v, l) == [timestamp |-> t, value |-> v, labels |-> l]

\* the values in the opposite order, as after a reordering of the samples
get_values_array_reversed(metric) == [i \in 1..Len(metric.values) |-> metric.values[Len(metric.values) + 1 - i].value]

get_values_array(metric) == [i \in 1..Len(metric.values) |-> metric.values[i].value]

----------------------------------------------------------------------------
(* detectors/base_detector.py *)

\* a check that asks for one sample more
validate_metric_one_more(metric, min_points) == Len(metric.values) >= min_points + 1

\* a check that lets through a series one sample short
validate_metric_one_short(metric, min_points) == Len(metric.values) >= min_points - 1

validate_metric(metric, min_points) == Len(metric.values) >= min_points

create_anomaly(name, metric, anomaly_type, severity, timestamp, value, confidence, expected_value, metadata) ==
    NewAnomaly([metric_name   |-> metric.name,
                anomaly_type  |-> anomaly_type,
                severity      |-> severity,
                timestamp     |-> timestamp,
                value         |-> value,
                detector_name |-> name,
                confidence    |-> confidence,
                expected_value |-> expected_value,
                metadata      |-> metadata])

\* The outcome of a detect call: the list it returns, or the exception that
\* escaped it ("ValueError" from the Anomaly constructor).
Returned(anoms) == [raised |-> "no", anomalies |-> anoms]

Raised(what) == [raised |-> what, anomalies |-> <<>>]

\* A detect loop appends each anomaly it constructs; the first constructor
\* that raises ends the call.
Collect(made) ==
    IF \E i \in 1..Len(made) : ~made[i].ok
    THEN Raised("ValueError")
    ELSE Returned(Stamp([i \in 1..Len(made) |-> made[i].val], 0))

----------------------------------------------------------------------------
(* detectors/spike_detector.py *)

\* percent_change of a pair (previous, current), None when both are zero
\* a change from 0 that is skipped whatever the current value
PercentChangeSkipFromZero(previous_value, current_value) ==
    IF previous_value = 0 THEN None
    ELSE Some(<<(current_value - previous_value) * 100 * Sgn(previous_value),
                Abs(previous_value)>>)

PercentChange(previous_value, current_value) ==
    IF previous_value = 0
    THEN IF current_value # 0 THEN Some(<<100, 1>>) ELSE None
    ELSE Some(<<(current_value - previous_value) * 100 * Sgn(previous_value),
                Abs(previous_value)>>)

\* bands in which a change of exactly 75 percent is not yet medium
SpikeSeverityMediumAbove(change_percent) ==
    IF RatLe(<<200, 1>>, change_percent) THEN "CRITICAL"
    ELSE IF RatLe(<<100, 1>>, change_percent) THEN "HIGH"
    ELSE IF RatLt(<<75, 1>>, change_percent) THEN "MEDIUM"
    ELSE "LOW"

\* bands in which a change of exactly 200 percent is not yet critical
SpikeSeverityCriticalAbove(change_percent) ==
    IF RatLt(<<200, 1>>, change_percent) THEN "CRITICAL"
    ELSE IF RatLe(<<100, 1>>, change_percent) THEN "HIGH"
    ELSE IF RatLe(<<75, 1>>, change_percent) THEN "MEDIUM"
    ELSE "LOW"

SpikeSeverity(change_percent) ==
    IF RatLe(<<200, 1>>, change_percent) THEN "CRITICAL"
    ELSE IF RatLe(<<100, 1>>, change_percent) THEN "HIGH"
    ELSE IF RatLe(<<75, 1>>, change_percent) THEN "MEDIUM"
    ELSE "LOW"

\* min(abs_change / 100.0, 1.0) * sensitivity, sensitivity a rational
SpikeConfidence(abs_change, sensitivity) ==
    IF RatLe(<<100, 1>>, abs_change)
    THEN Conf(sensitivity[1], sensitivity[2], 1)
    ELSE Conf(abs_change[1] * sensitivity[1], abs_change[2] * 100 * sensitivity[2], 1)

SpikeExceedsStrict(abs_change, min_change_percent) ==
    RatLt(<<min_change_percent, 1>>, abs_change)

SpikeExceeds(abs_change, min_change_percent) ==
    RatLe(<<min_change_percent, 1>>, abs_change)

\* the body of the for loop at index i (1-based, i >= 2): the anomalies it
\* constructs, as a sequence of zero or one constructor outcomes
SpikeStep(cfg, metric, i) ==
    LET values == get_values_array(metric)
        previous_value == values[i - 1]
        current_value == values[i]
        pch == PercentChange(previous_value, current_value)
    IN  IF pch = None THEN <<>>
        ELSE LET percent_change == pch[1]
                 abs_change == RatAbs(percent_change)
             IN  IF SpikeExceeds(abs_change, cfg.min_change_percent)
                 THEN << create_anomaly(
                           "SpikeDetector", metric,
                           IF percent_change[1] > 0 THEN "SPIKE" ELSE "DROP",
                           SpikeSeverity(abs_change),
                           metric.values[i].timestamp,
                           current_value,
                           SpikeConfidence(abs_change, cfg.sensitivity),
                           Some(<<previous_value, 1>>),
                           [previous_value |-> previous_value,
                            change_magnitude |-> abs_change]) >>
                 ELSE <<>>

SpikeDetect(cfg, metric) ==
    IF ~cfg.enabled THEN Returned(<<>>)
    ELSE IF ~validate_metric(metric, 2) THEN Returned(<<>>)
    ELSE Collect(Flatten([k \in 1..(Len(metric.values) - 1) |->
                              SpikeStep(cfg, metric, k + 1)]))

----------------------------------------------------------------------------
(* detectors/threshold_detector.py *)

\* re.match(pattern.replace('*', '.*'), name) for a pattern of literal
\* characters and '*': the pattern must match a prefix of the name
RECURSIVE ReMatch(_, _)
ReMatch(pattern, name) ==
    IF pattern = <<>> THEN TRUE
    ELSE IF Head(pattern) = "*"
         THEN \E k \in 0..Len(name) :
                  ReMatch(Tail(pattern), SubSeq(name, k + 1, Len(name)))
         ELSE /\ name # <<>>
              /\ Head(name) = Head(pattern)
              /\ ReMatch(Tail(pattern), Tail(name))

HasStar(pattern) == \E i \in 1..Len(pattern) : pattern[i] = "*"

\* self.thresholds is a dict: a sequence of <<key, bounds>> with distinct keys,
\* in insertion order.  The first definition looks at the patterns before the
\* exact key; the second is the code's.
GetMetricThresholdsPatternFirst(thresholds, metric_name) ==
    LET hits == {i \in 1..Len(thresholds) :
                     /\ HasStar(thresholds[i][1])
                     /\ ReMatch(thresholds[i][1], metric_name)}
        exact == {i \in 1..Len(thresholds) : thresholds[i][1] = metric_name}
    IN  IF hits # {}
        THEN Some(thresholds[CHOOSE i \in hits : \A j \in hits : i <= j][2])
        ELSE IF exact # {} THEN Some(thresholds[CHOOSE i \in exact : TRUE][2])
        ELSE None

GetMetricThresholds(thresholds, metric_name) ==
    LET exact == {i \in 1..Len(thresholds) : thresholds[i][1] = metric_name}
        hits == {i \in 1..Len(thresholds) :
                     /\ HasStar(thresholds[i][1])
                     /\ ReMatch(thresholds[i][1], metric_name)}
    IN  IF exact # {} THEN Some(thresholds[CHOOSE i \in exact : TRUE][2])
        ELSE IF hits # {}
             THEN Some(thresholds[CHOOSE i \in hits : \A j \in hits : i <= j][2])
             ELSE None

create_threshold_anomaly(metric, value, timestamp, threshold_value, threshold_type, severity) ==
    LET excess == IF threshold_type \in {"min", "min_rate"}
                  THEN threshold_value - value
                  ELSE value - threshold_value
    IN  create_anomaly("ThresholdDetector", metric, "THRESHOLD_BREACH", severity,
                       timestamp, value, ConfOne, Some(<<threshold_value, 1>>),
                       [threshold_type |-> threshold_type,
                        threshold_value |-> threshold_value,
                        excess |-> excess])

\* The six checks of _check_thresholds in the order the code makes them:
\* <<bound key, severity, breached(value, bound)>>.
UpperInclusive(value, bound) == value >= bound

UpperStrict(value, bound) == value > bound

LowerStrict(value, bound) == value < bound

BreachedAllInclusive(kind, value, bound) ==
    CASE kind = "critical" -> UpperInclusive(value, bound)
      [] kind = "warning"  -> UpperInclusive(value, bound)
      [] kind = "max"      -> UpperInclusive(value, bound)
      [] kind = "min"      -> LowerStrict(value, bound)
      [] kind = "max_rate" -> UpperInclusive(value, bound)
      [] kind = "min_rate" -> LowerStrict(value, bound)

Breached(kind, value, bound) ==
    CASE kind = "critical" -> UpperInclusive(value, bound)
      [] kind = "warning"  -> UpperInclusive(value, bound)
      [] kind = "max"      -> UpperStrict(value, bound)
      [] kind = "min"      -> LowerStrict(value, bound)
      [] kind = "max_rate" -> UpperStrict(value, bound)
      [] kind = "min_rate" -> LowerStrict(value, bound)

CheckOrderWarningFirst ==
    << <<"warning", "HIGH">>, <<"critical", "CRITICAL">>, <<"max", "HIGH">>,
       <<"min", "MEDIUM">>, <<"max_rate", "HIGH">>, <<"min_rate", "MEDIUM">> >>

CheckOrder ==
    << <<"critical", "CRITICAL">>, <<"warning", "HIGH">>, <<"max", "HIGH">>,
       <<"min", "MEDIUM">>, <<"max_rate", "HIGH">>, <<"min_rate", "MEDIUM">> >>

\* _check_thresholds: the first check of CheckOrder whose bound is configured
\* and breached makes the anomaly; zero or one constructor outcomes
CheckThresholds(metric, value, timestamp, thresholds) ==
    LET hit == {i \in 1..Len(CheckOrder) :
                    /\ CheckOrder[i][1] \in DOMAIN thresholds
                    /\ Breached(CheckOrder[i][1], value, thresholds[CheckOrder[i][1]])}
    IN  IF hit = {} THEN <<>>
        ELSE LET i == CHOOSE i \in hit : \A j \in hit : i <= j
             IN  << create_threshold_anomaly(metric, value, timestamp,
                        thresholds[CheckOrder[i][1]], CheckOrder[i][1],
                        CheckOrder[i][2]) >>

ThresholdDetect(cfg, metric) ==
    IF ~cfg.enabled THEN Returned(<<>>)
    ELSE IF ~validate_metric(metric, 1) THEN Returned(<<>>)
    ELSE LET metric_thresholds == GetMetricThresholds(cfg.thresholds, metric.name)
         IN  IF metric_thresholds = None \/ DOMAIN metric_thresholds[1] = {}
             THEN Returned(<<>>)
             ELSE Collect(Flatten([k \in 1..Len(metric.values) |->
                      CheckThresholds(metric, metric.values[k].value,
                                      metric.values[k].timestamp,
                                      metric_thresholds[1])]))

\* the keys add_threshold writes, by argument
AddKeys == {"warning", "critical", "min", "max"}

\* an add_threshold that updates the bound set of the name instead: bounds
\* not given anew stay
add_threshold_merging(thresholds, metric_name, warning, critical, min_val, max_val) ==
    LET arg == [warning |-> warning, critical |-> critical, min |-> min_val, max |-> max_val]
        given == {k \in AddKeys : arg[k] # None}
        at == {i \in 1..Len(thresholds) : thresholds[i][1] = metric_name}
        Merged(b) == [k \in given \cup DOMAIN b |-> IF k \in given THEN arg[k][1] ELSE b[k]]
    IN  IF at # {}
        THEN [i \in 1..Len(thresholds) |->
                 IF i \in at THEN <<metric_name, Merged(thresholds[i][2])>> ELSE thresholds[i]]
        ELSE Append(thresholds, <<metric_name, [k \in given |-> arg[k][1]]>>)

\* add_threshold: a new dict of the arguments that are not None, assigned to
\* self.thresholds[metric_name] (in place when the key exists, at the end of
\* the dict when it does not)
add_threshold(thresholds, metric_name, warning, critical, min_val, max_val) ==
    LET arg == [warning |-> warning, critical |-> critical, min |-> min_val, max |-> max_val]
        given == {k \in AddKeys : arg[k] # None}
        new == [k \in given |-> arg[k][1]]
        at == {i \in 1..Len(thresholds) : thresholds[i][1] = metric_name}
    IN  IF at # {}
        THEN [i \in 1..Len(thresholds) |->
                 IF i \in at THEN <<metric_name, new>> ELSE thresholds[i]]
        ELSE Append(thresholds, <<metric_name, new>>)

----------------------------------------------------------------------------
(* detectors/statistical_detector.py *)

SumSq(s) == SumSeq([i \in 1..Len(s) |-> s[i] * s[i]])

\* a variance that is never 0, as if the zero-deviation case went unnoticed
VarNumNeverZero(s) == Len(s) * SumSq(s) - SumSeq(s) * SumSeq(s) + 1

\* n * n * variance of s: n * sum(x^2) - sum(x)^2
VarNum(s) == Len(s) * SumSq(s) - SumSeq(s) * SumSeq(s)

\* the k-th smallest element of s (1-based)
Kth(s, k) ==
    CHOOSE v \in {s[i] : i \in 1..Len(s)} :
        /\ Cardinality({i \in 1..Len(s) : s[i] < v}) < k
        /\ k <= Cardinality({i \in 1..Len(s) : s[i] <= v})

\* 4 * np.percentile(s, 25 * quarter), linear interpolation between the two
\* order statistics around position (n - 1) * quarter / 4
Percentile4(s, quarter) ==
    LET pos == (Len(s) - 1) * quarter
        lo == pos \div 4
        r == pos % 4
    IN  IF r = 0 THEN 4 * Kth(s, lo + 1)
        ELSE 4 * Kth(s, lo + 1) + r * (Kth(s, lo + 2) - Kth(s, lo + 1))

ZScoreSeverity(dev, d) ==
    IF dev * dev >= 25 * d THEN "CRITICAL"
    ELSE IF dev * dev >= 16 * d THEN "HIGH"
    ELSE IF 4 * dev * dev >= 49 * d THEN "MEDIUM"
    ELSE "LOW"

\* min(z_score / 5.0, 1.0) with z_score = dev / sqrt(d)
ZScoreConfidence(dev, d) ==
    IF dev * dev >= 25 * d THEN ConfOne ELSE Conf(dev, 5, d)

\* z_scores > z_score_threshold, the threshold a rational
ZScoreExceeds(dev, d, threshold) ==
    \/ threshold[1] < 0
    \/ dev * dev * threshold[2] * threshold[2] > threshold[1] * threshold[1] * d

\* _detect_zscore_anomalies: one constructor outcome per flagged index
DetectZScore(cfg, metric) ==
    LET values == get_values_array(metric)
        n == Len(values)
        d == VarNum(values)
        Dev(i) == Abs(n * values[i] - SumSeq(values))
        One(i) ==
            IF ZScoreExceeds(Dev(i), d, cfg.z_score_threshold)
            THEN << create_anomaly(
                      "StatisticalDetector", metric, "STATISTICAL_OUTLIER",
                      ZScoreSeverity(Dev(i), d),
                      metric.values[i].timestamp, values[i],
                      ZScoreConfidence(Dev(i), d),
                      Some(<<SumSeq(values), n>>),
                      [detection_method |-> "z_score"]) >>
            ELSE <<>>
    IN  IF d = 0 THEN <<>>
        ELSE Flatten([i \in 1..n |-> One(i)])

IqrSeverity(nd) ==
    IF RatLe(<<3, 1>>, nd) THEN "CRITICAL"
    ELSE IF RatLe(<<2, 1>>, nd) THEN "HIGH"
    ELSE IF RatLe(<<1, 1>>, nd) THEN "MEDIUM"
    ELSE "LOW"

\* min(normalized_distance / 2.0, 1.0)
IqrConfidence(nd) ==
    IF RatLe(<<2, 1>>, nd) THEN ConfOne ELSE Conf(nd[1], 2 * nd[2], 1)

\* _detect_iqr_anomalies.  With k = kn / kd the multiplier, q1x4 and q3x4 four
\* times the quartiles: lo and hi are 4 * kd times the two bounds.
DetectIqr(cfg, metric) ==
    LET values == get_values_array(metric)
        n == Len(values)
        q1x4 == Percentile4(values, 1)
        q3x4 == Percentile4(values, 3)
        iqr4 == q3x4 - q1x4
        kn == cfg.iqr_multiplier[1]
        kd == cfg.iqr_multiplier[2]
        lo == kd * q1x4 - kn * iqr4
        hi == kd * q3x4 + kn * iqr4
        Dist(i) == IF 4 * kd * values[i] < lo
                   THEN lo - 4 * kd * values[i]
                   ELSE 4 * kd * values[i] - hi
        One(i) ==
            IF 4 * kd * values[i] < lo \/ 4 * kd * values[i] > hi
            THEN << create_anomaly(
                      "StatisticalDetector", metric, "STATISTICAL_OUTLIER",
                      IqrSeverity(<<Dist(i), kd * iqr4>>),
                      metric.values[i].timestamp, values[i],
                      IqrConfidence(<<Dist(i), kd * iqr4>>),
                      Some(<<Percentile4(values, 2), 4>>),
                      [detection_method |-> "iqr"]) >>
            ELSE <<>>
    IN  IF iqr4 = 0 THEN <<>>
        ELSE Flatten([i \in 1..n |-> One(i)])

\* max(anoms, key=confidence): the first element no other element exceeds.
\* BestOfFirst keeps the first candidate of the group whatever its confidence.
BestOfFirst(anoms) == anoms[1]

BestOf(anoms) ==
    anoms[CHOOSE i \in 1..Len(anoms) :
              /\ \A j \in 1..Len(anoms) : ConfLe(anoms[j].confidence, anoms[i].confidence)
              /\ \A j \in 1..(i - 1) : ConfLt(anoms[j].confidence, anoms[i].confidence)]

\* a deduplication that groups by sample (timestamp and value) instead
DeduplicateAnomaliesBySample(anoms) ==
    LET Same(a, b) == a.timestamp = b.timestamp /\ a.value = b.value
        first == {i \in 1..Len(anoms) : \A j \in 1..(i - 1) : ~Same(anoms[j], anoms[i])}
        Group(i) == SelectSeq(anoms, LAMBDA a : Same(a, anoms[i]))
        RECURSIVE Walk(_)
        Walk(i) == IF i > Len(anoms) THEN <<>>
                   ELSE IF i \in first THEN <<BestOf(Group(i))>> \o Walk(i + 1)
                   ELSE Walk(i + 1)
    IN  Walk(1)

\* _deduplicate_anomalies: group by timestamp (a dict, so groups come in order
\* of first occurrence) and keep the best of each group
DeduplicateAnomalies(anoms) ==
    LET first == {i \in 1..Len(anoms) :
                      \A j \in 1..(i - 1) : anoms[j].timestamp # anoms[i].timestamp}
        Group(i) == SelectSeq(anoms, LAMBDA a : a.timestamp = anoms[i].timestamp)
        RECURSIVE Walk(_)
        Walk(i) == IF i > Len(anoms) THEN <<>>
                   ELSE IF i \in first THEN <<BestOf(Group(i))>> \o Walk(i + 1)
                   ELSE Walk(i + 1)
    IN  Walk(1)

StatisticalDetect(cfg, metric) ==
    IF ~cfg.enabled THEN Returned(<<>>)
    ELSE IF ~validate_metric(metric, 10) THEN Returned(<<>>)
    ELSE LET made == Collect(DetectZScore(cfg, metric) \o DetectIqr(cfg, metric))
         IN  IF made.raised # "no" THEN made
             ELSE Returned(DeduplicateAnomalies(made.anomalies))

----------------------------------------------------------------------------
(* detectors/pattern_detector.py *)

\* 2 * np.gradient(values): one-sided differences at the two ends, central
\* differences inside
Gradient2(values) ==
    LET n == Len(values)
        Diff2(hi, lo, k) == IF hi = NaN \/ lo = NaN THEN NaN ELSE k * (hi - lo)
    IN  [i \in 1..n |->
            IF i = 1 THEN Diff2(values[2], values[1], 2)
            ELSE IF i = n THEN Diff2(values[n], values[n - 1], 2)
            ELSE Diff2(values[i + 1], values[i - 1], 1)]

HasNaN(s) == \E i \in 1..Len(s) : s[i] = NaN

\* the sum of s[a..b], NaN as soon as one term is
SumRange(s, a, b) == IF HasNaN(SubSeq(s, a, b)) THEN NaN ELSE SumSeq(SubSeq(s, a, b))

\* min(abs(after_trend - before_trend) / np.std(gradient), 1.0), with
\* diff / sqrt(d) the quotient; a zero deviation makes the quotient infinite
\* With a NaN deviation the quotient is NaN, and min(nan, 1.0) is its first
\* argument.
TrendConfidence(diff, den, d) ==
    IF d = NaN THEN ConfNaN
    ELSE IF d = 0 \/ diff * diff >= den * den * d THEN ConfOne
    ELSE Conf(diff, den, d)

\* _detect_trend_changes, window = window_size // 2 >= 1
DetectTrendChanges(cfg, metric) ==
    LET values == get_values_array(metric)
        n == Len(values)
        g2 == Gradient2(values)
        window == cfg.window_size \div 2
        smoothed == [j \in 1..(n - window + 1) |-> SumRange(g2, j, j + window - 1)]
        d == IF HasNaN(g2) THEN NaN ELSE VarNum(g2)
        \* j is idx + 1; r is real_idx
        One(j) ==
            LET r == j + (window \div 2)
                bfrom == IF r - 5 > 0 THEN r - 5 ELSE 0
                ato == IF r + 5 < n THEN r + 5 ELSE n
                bcount == r - bfrom
                acount == ato - r
                before2 == SumRange(g2, bfrom + 1, r)
                after2 == SumRange(g2, r + 1, ato)
            IN  IF smoothed[j + 1] = NaN \/ smoothed[j] = NaN THEN <<>>
                ELSE IF Sgn(smoothed[j + 1]) = Sgn(smoothed[j]) THEN <<>>
                ELSE IF r >= n THEN <<>>
                ELSE IF before2 = NaN \/ after2 = NaN THEN <<>>
                ELSE IF (before2 > 0 /\ after2 < 0) \/ (before2 < 0 /\ after2 > 0)
                THEN << create_anomaly(
                          "PatternDetector", metric, "PATTERN_ANOMALY", "MEDIUM",
                          metric.values[r + 1].timestamp, values[r + 1],
                          TrendConfidence(Abs(after2 * bcount - before2 * acount) * n,
                                          acount * bcount, d),
                          None,
                          [detection_method |-> "trend_change"]) >>
                ELSE <<>>
    IN  Flatten([j \in 1..(n - window) |-> One(j)])

MovingAverageSeverity(dev, d) ==
    IF dev * dev > 16 * d THEN "HIGH"
    ELSE IF dev * dev > 9 * d THEN "MEDIUM"
    ELSE "LOW"

\* min(deviation / 5.0, 1.0) with deviation = dev / sqrt(d)
MovingAverageConfidence(dev, d) ==
    IF dev * dev >= 25 * d THEN ConfOne ELSE Conf(dev, 5, d)

\* deviation > 2.5
MovingAverageExceeds(dev, d) == 4 * dev * dev > 25 * d

\* _detect_moving_average_deviations: at position p > window_size the average
\* and deviation are those of the window_size samples before p
DetectMovingAverageDeviations(cfg, metric) ==
    LET values == get_values_array(metric)
        n == Len(values)
        w == cfg.window_size
        Win(p) == SubSeq(values, p - w, p - 1)
        Dev(p) == Abs(w * values[p] - SumSeq(Win(p)))
        One(p) ==
            IF HasNaN(Win(p)) \/ values[p] = NaN THEN <<>>
            ELSE IF VarNum(Win(p)) = 0 THEN <<>>
            ELSE IF MovingAverageExceeds(Dev(p), VarNum(Win(p)))
            THEN << create_anomaly(
                      "PatternDetector", metric, "PATTERN_ANOMALY",
                      MovingAverageSeverity(Dev(p), VarNum(Win(p))),
                      metric.values[p].timestamp, values[p],
                      MovingAverageConfidence(Dev(p), VarNum(Win(p))),
                      Some(<<SumSeq(Win(p)), w>>),
                      [detection_method |-> "moving_average"]) >>
            ELSE <<>>
    IN  Flatten([k \in 1..(n - w) |-> One(k + w)])

\* detect.  A window_size below 2 makes the smoothing kernel np.ones(0) empty,
\* which np.convolve refuses with a ValueError.
PatternDetect(cfg, metric) ==
    IF ~cfg.enabled THEN Returned(<<>>)
    ELSE IF ~validate_metric(metric, cfg.window_size * 2) THEN Returned(<<>>)
    ELSE IF cfg.window_size \div 2 = 0 THEN Raised("ConvolveError")
    ELSE Collect(DetectTrendChanges(cfg, metric)
                    \o DetectMovingAverageDeviations(cfg, metric))

----------------------------------------------------------------------------
(* Detector runs: one detect call on one input. *)

SeqsUpTo(S, n) == UNION {[1..k -> S] : k \in 0..n}

SampleLabels == [job |-> "api"]

\* a Metric as get_metric_range builds it: one label set for all samples
SeriesAt(name, vals, times) ==
    Metric(name, [i \in 1..Len(vals) |-> MetricValue(times[i], vals[i], SampleLabels)])

\* samples at 1-minute spacing
SeriesOf(name, vals) == SeriesAt(name, vals, [i \in 1..Len(vals) |-> i])

SpikeVals == {-2, 0, 1, 2, 4, 7}

Sensitivities == {<<0, 1>>, <<4, 5>>, <<1, 1>>}

\* test_detect_spike_up: a level of 100 with one sample at 300, one sample a
\* minute from minute 0 on
SpikeUpValues == <<100, 100, 100, 100, 300, 100, 100>>

SpikeUpSeries ==
    SeriesAt(<<"a">>, SpikeUpValues, [i \in 1..Len(SpikeUpValues) |-> i - 1])

SpikeInputs ==
    [detector : {"spike"},
     cfg : [enabled : BOOLEAN, sensitivity : Sensitivities,
            min_change_percent : {50, 100, 150}],
     metric : {SeriesOf(<<"a">>, v) : v \in SeqsUpTo(SpikeVals, MaxSpikeLen)}
              \cup {SpikeUpSeries}]

BoundKinds == {"critical", "warning", "max", "min", "max_rate", "min_rate"}

BoundSets ==
    UNION {[K -> 0..MaxThreshVal] :
              K \in {S \in SUBSET BoundKinds : Cardinality(S) <= MaxBoundKeys}}

ThreshNames == {<<"a">>, <<"a", "b">>, <<"a", "b", "c">>, <<"c">>}

ThreshKeys == {<<"a">>, <<"a", "b">>, <<"a", "*">>, <<"*", "b">>, <<"c", "*">>}

\* one bound set per entry, telling the entries apart
EntryBounds == {[k \in {} |-> 0], [k \in {"critical"} |-> 1], [k \in {"warning"} |-> 2]}

ThresholdTables ==
    {t \in SeqsUpTo(ThreshKeys \X EntryBounds, 2) :
        \A i, j \in 1..Len(t) : i # j => t[i][1] # t[j][1]}

\* family A: one exact entry with any bound set; family B: any table of
\* exact keys and patterns, any name
ThresholdInputs ==
    [detector : {"threshold"},
     cfg : [enabled : {TRUE}, thresholds : {<< <<(<<"a">>), b>> >> : b \in BoundSets}],
     metric : {SeriesOf(<<"a">>, v) : v \in SeqsUpTo(0..MaxThreshVal, MaxThreshLen)}]
    \cup
    [detector : {"threshold"},
     cfg : [enabled : BOOLEAN, thresholds : ThresholdTables],
     metric : {SeriesOf(nm, v) : nm \in ThreshNames, v \in {<<>>, <<2>>, <<2, 0>>}}]

StatBase == <<50, 51, 49, 50, 52, 51, 50, 49>>

StatTailVals == {49, 51, 53, 55, 500}

\* the last sample's timestamp repeated on the one before it, or not
StatTimes(n, dup) == [i \in 1..n |-> IF dup /\ i = n THEN n - 1 ELSE i]

\* nine equal samples, followed by more of the same or by far-off samples
StatFlatBase == <<50, 50, 50, 50, 50, 50, 50, 50, 50>>

StatFlatTailVals == {50, 500}

StatisticalInputs ==
    [detector : {"statistical"},
     cfg : [enabled : {TRUE}, z_score_threshold : {<<3, 1>>, <<2, 1>>},
            iqr_multiplier : {<<3, 2>>}],
     metric : {SeriesAt(<<"a">>, StatBase \o tl, StatTimes(Len(StatBase) + Len(tl), dup)) :
                  tl \in SeqsUpTo(StatTailVals, MaxStatTail) \ {<<>>},
                  dup \in BOOLEAN}
              \cup {SeriesOf(<<"a">>, StatFlatBase \o tl) :
                        tl \in SeqsUpTo(StatFlatTailVals, MaxStatTail) \ {<<>>}}]

PatternVals == {0, 1, 2, 5}

\* series that end in a run of equal samples and then a last sample, which
\* may be NaN
PatternNanSeries ==
    {h \o <<0, 0, 0, 0, 0>> \o t :
        h \in SeqsUpTo({0, 1}, MaxNanHead), t \in {<<NaN>>, <<0>>, <<1>>}}

PatternInputs ==
    [detector : {"pattern"},
     cfg : [enabled : {TRUE}, window_size : {1, 2, 3}],
     metric : {SeriesOf(<<"a">>, v) :
                  v \in SeqsUpTo(PatternVals, MaxPatternLen) \cup PatternNanSeries}]

\* before and outside a collect_and_analyze cycle
OrchIdle ==
    /\ pc = "idle"
    /\ metrics_to_monitor = <<>>
    /\ llm_enabled = FALSE
    /\ detectors = <<>>
    /\ metric_idx = 0
    /\ cur_metric = None
    /\ all_anomalies = <<>>
    /\ next_id = 0
    /\ validated = <<>>
    /\ responses = <<>>
    /\ raw_batch = <<>>
    /\ enrich_state = "off"

RunIdle ==
    /\ run_pc = "off"
    /\ shutdown_requested = FALSE
    /\ iteration = 0
    /\ check_interval = 0
    /\ wait_left = 0
    /\ cycle_result = "none"
    /\ posts = 0
    /\ delivery = "none"

DetIdle ==
    /\ det_in = [detector |-> "none"]
    /\ det_out = Returned(<<>>)
    /\ det_pc = "idle"
    /\ det_prev = Returned(<<>>)
    /\ exported = None

DetInit(inputs) ==
    /\ det_in \in inputs
    /\ det_out = Returned(<<>>)
    /\ det_pc = "ready"
    /\ det_prev = Returned(<<>>)
    /\ exported = None
    /\ OrchIdle
    /\ RunIdle

RunDetector(kind, out) ==
    /\ det_pc = "ready"
    /\ det_in.detector = kind
    /\ det_out' = out
    /\ det_pc' = "done"
    /\ UNCHANGED <<det_in, det_prev, exported, orch_vars, run_vars>>

RunSpike == RunDetector("spike", SpikeDetect(det_in.cfg, det_in.metric))

RunThreshold == RunDetector("threshold", ThresholdDetect(det_in.cfg, det_in.metric))

RunStatistical == RunDetector("statistical", StatisticalDetect(det_in.cfg, det_in.metric))

RunPattern == RunDetector("pattern", PatternDetect(det_in.cfg, det_in.metric))

SpecSpike == DetInit(SpikeInputs) /\ [][RunSpike]_vars

SpecThreshold == DetInit(ThresholdInputs) /\ [][RunThreshold]_vars

\* tables of exact keys and patterns, and tables whose entry for "a" holds
\* rate bounds; any name; a series with a sample above and one below 1
AddThresholdInputs ==
    [detector : {"threshold"},
     cfg : [enabled : {TRUE},
            thresholds : ThresholdTables
                         \cup {<< <<(<<"a">>), [k \in {"max_rate", "min_rate"} |-> 1]>> >>,
                               << <<(<<"a", "*">>), [k \in {"critical"} |-> 1]>>,
                                  <<(<<"a">>), [k \in {"max_rate", "warning"} |-> 1]>> >>}],
     metric : {SeriesOf(nm, <<2, 0>>) : nm \in ThreshNames}]

\* one add_threshold call on the detector before its detect call; the call
\* and the table it found are kept in det_in.added
AddThreshold ==
    /\ det_pc = "ready"
    /\ det_in.detector = "threshold"
    /\ "added" \notin DOMAIN det_in
    /\ \E m \in {<<"a">>, <<"a", "b">>, <<"c", "*">>},
          w \in {None, Some(1)}, c \in {None, Some(1)},
          lo \in {None, Some(1)}, hi \in {None, Some(1)} :
          det_in' = [detector |-> "threshold",
                     cfg |-> [det_in.cfg EXCEPT !.thresholds =
                                 add_threshold(det_in.cfg.thresholds, m, w, c, lo, hi)],
                     metric |-> det_in.metric,
                     added |-> [metric_name |-> m, warning |-> w, critical |-> c,
                                min |-> lo, max |-> hi,
                                before |-> det_in.cfg.thresholds]]
    /\ UNCHANGED <<det_out, det_pc, det_prev, exported, orch_vars, run_vars>>

SpecAddThreshold == DetInit(AddThresholdInputs) /\ [][AddThreshold \/ RunThreshold]_vars

SpecStatistical == DetInit(StatisticalInputs) /\ [][RunStatistical]_vars

SpecPattern == DetInit(PatternInputs) /\ [][RunPattern]_vars

\* Anomaly(...) called directly, with any confidence
ConfidenceInputs ==
    {Conf(n, d, r) : n \in -MaxConfNum..MaxConfNum, d \in 1..4, r \in {1, 2}}

AnomalyInputs ==
    [detector : {"anomaly"},
     fields : [metric_name : {<<"a">>}, anomaly_type : {"SPIKE", "THRESHOLD_BREACH"},
               severity : {"LOW"}, timestamp : {1}, value : {1},
               detector_name : {"SpikeDetector"}, confidence : ConfidenceInputs,
               expected_value : {None, Some(<<1, 1>>)}, metadata : {EmptyDict}]]

Construct ==
    /\ det_pc = "ready"
    /\ det_in.detector = "anomaly"
    /\ det_out' = Collect(<<NewAnomaly(det_in.fields)>>)
    /\ det_pc' = "done"
    /\ UNCHANGED <<det_in, det_prev, exported, orch_vars, run_vars>>

SpecAnomaly == DetInit(AnomalyInputs) /\ [][Construct]_vars

DetectInit ==
    \/ DetInit(SpikeInputs)
    \/ DetInit(ThresholdInputs)
    \/ DetInit(StatisticalInputs)
    \/ DetInit(PatternInputs)

DetectNext == RunSpike \/ RunThreshold \/ RunStatistical \/ RunPattern

SpecDetect == DetectInit /\ [][DetectNext]_vars

\* the detect call of the run's detector on the run's input
DetectOf(input) ==
    CASE input.detector = "spike" -> SpikeDetect(input.cfg, input.metric)
      [] input.detector = "threshold" -> ThresholdDetect(input.cfg, input.metric)
      [] input.detector = "statistical" -> StatisticalDetect(input.cfg, input.metric)
      [] input.detector = "pattern" -> PatternDetect(input.cfg, input.metric)

\* ReissueSame hands out the identifiers of the earlier call again
ReissueSame(out, base) == out

\* anomaly_id is str(uuid4()) at construction: the anomalies of a later call
\* get identifiers that no earlier anomaly has
Reissue(out, base) ==
    [out EXCEPT !.anomalies =
        [k \in 1..Len(out.anomalies) |->
            [out.anomalies[k] EXCEPT !.anomaly_id = base + @]]]

\* the largest identifier among the anomalies of an outcome, 0 when it has none
LastId(out) ==
    IF out.anomalies = <<>> THEN 0
    ELSE CHOOSE m \in {out.anomalies[k].anomaly_id : k \in 1..Len(out.anomalies)} :
             \A k \in 1..Len(out.anomalies) : out.anomalies[k].anomaly_id <= m

\* the same detector called a second time on the same Metric
RunAgain ==
    /\ det_pc = "done"
    /\ det_prev' = det_out
    /\ det_out' = Reissue(DetectOf(det_in), LastId(det_out))
    /\ det_pc' = "again"
    /\ UNCHANGED <<det_in, exported, orch_vars, run_vars>>

SpecRerun == DetectInit /\ [][DetectNext \/ RunAgain]_vars

----------------------------------------------------------------------------
(* models/anomaly.py: to_orchestrator_dict *)

DETECTOR_TO_CATEGORY ==
    [spike_detector |-> "performance",
     threshold_detector |-> "capacity",
     statistical_detector |-> "performance",
     pattern_detector |-> "availability"]

ANOMALY_TYPE_TO_DETECTOR ==
    [SPIKE |-> "spike_detector",
     THRESHOLD_BREACH |-> "threshold_detector",
     STATISTICAL_OUTLIER |-> "statistical_detector",
     PATTERN_ANOMALY |-> "pattern_detector"]

\* ANOMALY_TYPE_TO_DETECTOR.get(self.anomaly_type, self.detector_name)
DetectorKey(a) ==
    IF a.anomaly_type \in DOMAIN ANOMALY_TYPE_TO_DETECTOR
    THEN ANOMALY_TYPE_TO_DETECTOR[a.anomaly_type]
    ELSE a.detector_name

\* DETECTOR_TO_CATEGORY.get(detector, "unknown")
SuggestedCategory(detector) ==
    IF detector \in DOMAIN DETECTOR_TO_CATEGORY
    THEN DETECTOR_TO_CATEGORY[detector]
    ELSE "unknown"

\* to_orchestrator_dict, without the description, the rounded confidence and
\* the context, which the anomalies of the model do not carry
to_orchestrator_dict(a) ==
    [anomaly_id     |-> a.anomaly_id,
     source         |-> "metrics",
     metric_name    |-> a.metric_name,
     labels         |-> a.labels,
     detector       |-> DetectorKey(a),
     severity       |-> SeverityValue[a.severity],
     observed_value |-> a.value,
     expected_value |-> a.expected_value,
     threshold      |-> DictGet(a.metadata, "threshold"),
     start_time     |-> IsoFormat(IF a.start_time # None THEN a.start_time[1]
                                  ELSE a.timestamp),
     end_time       |-> IsoFormat(IF a.end_time # None THEN a.end_time[1]
                                  ELSE a.timestamp),
     suggested_category |-> SuggestedCategory(DetectorKey(a)),
     llm_validated  |-> a.llm_validated]

\* main.py and api.py: every anomaly of the list is sent as its record
Export ==
    /\ det_pc = "done"
    /\ det_in.detector \in {"spike", "threshold", "statistical", "pattern"}
    /\ exported' = Some([i \in 1..Len(det_out.anomalies) |->
                            to_orchestrator_dict(det_out.anomalies[i])])
    /\ det_pc' = "exported"
    /\ UNCHANGED <<det_in, det_out, det_prev, orch_vars, run_vars>>

SpecExport == DetectInit /\ [][DetectNext \/ Export]_vars

----------------------------------------------------------------------------
(* models/anomaly.py: to_dict and from_dict *)

\* to_dict: asdict(self), the two enums by value, the timestamp as ISO text,
\* and deviation_percent when the deviation is defined
to_dict(a) ==
    LET data == [metric_name    |-> a.metric_name,
                 anomaly_type   |-> AnomalyTypeValue[a.anomaly_type],
                 severity       |-> SeverityValue[a.severity],
                 timestamp      |-> IsoFormat(a.timestamp),
                 value          |-> a.value,
                 detector_name  |-> a.detector_name,
                 confidence     |-> a.confidence,
                 expected_value |-> a.expected_value,
                 metadata       |-> a.metadata,
                 labels         |-> a.labels,
                 anomaly_id     |-> a.anomaly_id,
                 start_time     |-> a.start_time,
                 end_time       |-> a.end_time,
                 llm_validated  |-> a.llm_validated,
                 llm_status     |-> a.llm_status]
    IN  IF Deviation(a) = None THEN data
        ELSE ("deviation_percent" :> Deviation(a)[1]) @@ data

AllowedKeys ==
    {"metric_name", "anomaly_type", "severity", "timestamp", "value",
     "detector_name", "confidence", "expected_value", "description", "metadata",
     "labels", "anomaly_id", "start_time", "end_time"}

\* from_dict: the enums and the timestamp parsed back, the keys the
\* constructor does not take dropped, then the constructor.  An anomaly_id
\* missing from the dict is drawn afresh by the default factory (fresh).
from_dict(data, fresh) ==
    LET conv == [k \in DOMAIN data |->
                    IF k = "anomaly_type" THEN AnomalyTypeOf(data[k])
                    ELSE IF k = "severity" THEN SeverityOf(data[k])
                    ELSE IF k = "timestamp" THEN FromIsoFormat(data[k])
                    ELSE data[k]]
        filtered == [k \in (DOMAIN conv) \cap AllowedKeys |-> conv[k]]
    IN  NewAnomaly(IF "anomaly_id" \in DOMAIN filtered THEN filtered
                   ELSE ("anomaly_id" :> fresh) @@ filtered)

----------------------------------------------------------------------------
(* utils/prometheus_client.py *)

\* float(data_point[1]): the store gives the value as text, <<"str", v>>
ParseFloat(x) == x[2]

\* datetime.fromtimestamp(data_point[0])
FromTimestamp(t) == t

\* get_metric_range on what custom_query_range did: it raised, or returned a
\* list of series (of which the first is read).  None when it raised or the
\* list is empty.
get_metric_range(query, resp) ==
    IF resp.kind = "raise" THEN None
    ELSE IF resp.result = <<>> THEN None
    ELSE Some(Metric(query,
              [i \in 1..Len(resp.result[1].values) |->
                  MetricValue(FromTimestamp(resp.result[1].values[i][1]),
                              ParseFloat(resp.result[1].values[i][2]),
                              resp.result[1].metric)]))

----------------------------------------------------------------------------
(* detectors/llm_validator.py and utils/llm_client.py *)

\* what llm_client.validate_anomaly did for one anomaly: "analysed" (the model
\* answered), "failed" (the client caught its own error and returned a dict
\* without an analysis), "raised" (an exception reached validate_anomalies)
LlmOutcomes == {"analysed", "failed", "raised"}

LlmAnswer(outcome) ==
    IF outcome = "analysed"
    THEN [llm_validation |-> Some(TRUE), llm_analysis |-> Some("analysis"),
          llm_model |-> Some("openai/gpt-oss-120b")]
    ELSE [llm_validation |-> Some(FALSE), llm_error |-> Some("error")]

\* the enriched dict: the anomaly's dict and the three keys read from the
\* client's answer with dict.get
Enriched(anomaly_dict, llm_analysis) ==
    LET Get(k, default) == IF k \in DOMAIN llm_analysis THEN llm_analysis[k] ELSE default
    IN  ("llm_validation" :> Get("llm_validation", None))
        @@ ("llm_analysis" :> Get("llm_analysis", None))
        @@ ("llm_model" :> Get("llm_model", Some("mixtral-8x7b-32768")))
        @@ anomaly_dict

\* a handler that keeps nothing of an anomaly whose call raised
ValidateOneDropRaised(anomaly, outcome, keep_all) ==
    IF outcome = "raised" THEN <<>>
    ELSE <<Enriched(to_dict(anomaly), LlmAnswer(outcome))>>

\* one turn of the loop of validate_anomalies: what it appends to
\* validated_anomalies
ValidateOne(anomaly, outcome, keep_all) ==
    IF outcome = "raised"
    THEN IF keep_all THEN <<to_dict(anomaly)>> ELSE <<>>
    ELSE <<Enriched(to_dict(anomaly), LlmAnswer(outcome))>>

----------------------------------------------------------------------------
(* collectors/prometheus_collector.py *)

DefaultDetectorsConfig ==
    [spike_detector |-> [enabled |-> TRUE, sensitivity |-> <<4, 5>>,
                         min_change_percent |-> 50],
     statistical_detector |-> [enabled |-> TRUE, z_score_threshold |-> <<3, 1>>,
                               iqr_multiplier |-> <<3, 2>>],
     threshold_detector |-> [enabled |-> TRUE,
                             thresholds |-> << <<(<<"a">>), [warning |-> 2, critical |-> 4]>> >>],
     pattern_detector |-> [enabled |-> TRUE, window_size |-> 24]]

\* the last one with a sensitivity above the documented range 0-1, which
\* SpikeDetector takes as it is: its confidence on a change of 100% or more
\* is then above 1 and the Anomaly constructor raises
DetectorsConfigs ==
    {DefaultDetectorsConfig,
     [DefaultDetectorsConfig EXCEPT !.spike_detector.enabled = FALSE],
     [DefaultDetectorsConfig EXCEPT !.spike_detector.sensitivity = <<3, 2>>]}

\* _initialize_detectors: the enabled detectors in the fixed order
initialize_detectors(config) ==
    (IF config.spike_detector.enabled
     THEN <<[kind |-> "spike", cfg |-> config.spike_detector]>> ELSE <<>>)
    \o (IF config.statistical_detector.enabled
        THEN <<[kind |-> "statistical", cfg |-> config.statistical_detector]>> ELSE <<>>)
    \o (IF config.threshold_detector.enabled
        THEN <<[kind |-> "threshold", cfg |-> config.threshold_detector]>> ELSE <<>>)
    \o (IF config.pattern_detector.enabled
        THEN <<[kind |-> "pattern", cfg |-> config.pattern_detector]>> ELSE <<>>)

Detect(detector, metric) ==
    CASE detector.kind = "spike" -> SpikeDetect(detector.cfg, metric)
      [] detector.kind = "statistical" -> StatisticalDetect(detector.cfg, metric)
      [] detector.kind = "threshold" -> ThresholdDetect(detector.cfg, metric)
      [] detector.kind = "pattern" -> PatternDetect(detector.cfg, metric)

\* an aggregation that keeps one anomaly per timestamp, the first made
detect_anomalies_one_per_timestamp(dets, metric, base) ==
    LET every == Flatten([i \in 1..Len(dets) |->
                     IF Detect(dets[i], metric).raised # "no" THEN <<>>
                     ELSE Detect(dets[i], metric).anomalies])
        kept == {i \in 1..Len(every) :
                    \A j \in 1..(i - 1) : every[j].timestamp # every[i].timestamp}
        RECURSIVE Walk(_)
        Walk(i) == IF i > Len(every) THEN <<>>
                   ELSE IF i \in kept THEN <<every[i]>> \o Walk(i + 1)
                   ELSE Walk(i + 1)
    IN  Stamp(Walk(1), base)

\* an aggregation that a raising detector ends: the exception leaves the
\* call and nothing is returned for the metric
detect_anomalies_abort_on_raise(dets, metric, base) ==
    IF \E i \in 1..Len(dets) : Detect(dets[i], metric).raised # "no" THEN <<>>
    ELSE Stamp(Flatten([i \in 1..Len(dets) |-> Detect(dets[i], metric).anomalies]), base)

\* _detect_anomalies: every detector in turn; one that raises is logged and
\* skipped.  Anomalies keep the order they were made in and get fresh ids.
detect_anomalies(dets, metric, base) ==
    Stamp(Flatten([i \in 1..Len(dets) |->
                      IF Detect(dets[i], metric).raised # "no" THEN <<>>
                      ELSE Detect(dets[i], metric).anomalies]), base)

\* _collect_metric: get_metric_range, None when it raises
collect_metric(metric_name, resp) == get_metric_range(metric_name, resp)

\* the test after the fetch: no Metric, or a Metric without values
NoData(metric) == metric = None \/ Len(metric[1].values) = 0

\* _enrich_with_llm on the validated dicts: every item is a dict, made an
\* Anomaly again by from_dict, the LLM's analysis added to its metadata
EnrichItem(item, fresh) ==
    LET made == from_dict(item, fresh)
        hasAnalysis == "llm_analysis" \in DOMAIN item /\ item.llm_analysis # None
    IN  IF ~made.ok \/ ~hasAnalysis THEN made
        ELSE [made EXCEPT !.val.metadata =
                 ("llm_analysis" :> item.llm_analysis)
                 @@ ("llm_validation" :>
                        IF "llm_validation" \in DOMAIN item THEN item.llm_validation
                        ELSE None)
                 @@ made.val.metadata]

enrich_with_llm(items, base) ==
    LET made == [i \in 1..Len(items) |-> EnrichItem(items[i], base + i)]
    IN  IF \E i \in 1..Len(made) : ~made[i].ok THEN Raised("ValueError")
        ELSE Returned([i \in 1..Len(made) |-> made[i].val])

\* lines 177-183: all_anomalies is replaced by what _enrich_with_llm returns;
\* when it raises the assignment does not happen
AfterEnrichmentTakeOutcome(batch, outcome) == outcome.anomalies

AfterEnrichment(batch, outcome) ==
    IF outcome.raised # "no" THEN batch ELSE outcome.anomalies

OrchSeriesVals == {<<>>, <<1>>, <<4>>, <<1, 4>>}

NameOf(i) == IF i % 2 = 1 THEN <<"a">> ELSE <<"b">>

\* what custom_query_range can do: raise, return no series, return one series
StoreResponses ==
    {[kind |-> "raise", result |-> <<>>], [kind |-> "result", result |-> <<>>]}
    \cup {[kind |-> "result",
           result |-> <<[metric |-> SampleLabels,
                         values |-> [i \in 1..Len(v) |-> <<i, <<"str", v[i]>> >>]]>>] :
             v \in OrchSeriesVals}

Init ==
    /\ pc = "idle"
    /\ metrics_to_monitor \in {[i \in 1..k |-> NameOf(i)] : k \in 1..MaxMetrics}
    /\ llm_enabled \in BOOLEAN
    /\ detectors \in {initialize_detectors(c) : c \in DetectorsConfigs}
    /\ metric_idx = 0
    /\ cur_metric = None
    /\ all_anomalies = <<>>
    /\ next_id = 0
    /\ validated = <<>>
    /\ responses = <<>>
    /\ raw_batch = <<>>
    /\ enrich_state = "off"
    /\ DetIdle
    /\ RunIdle

\* after a metric: the next one, or the end of the for loop
Advance ==
    IF metric_idx < Len(metrics_to_monitor)
    THEN pc' = "fetching" /\ metric_idx' = metric_idx + 1
    ELSE pc' = "aggregated" /\ metric_idx' = metric_idx

StartCycle ==
    /\ pc = "idle"
    /\ pc' = "fetching"
    /\ metric_idx' = 1
    /\ all_anomalies' = <<>>
    /\ UNCHANGED <<metrics_to_monitor, llm_enabled, detectors, cur_metric, next_id,
                   validated, responses, raw_batch, enrich_state, det_vars, run_vars>>

\* the fetch with a break where the code has a continue
FetchMetricAbort ==
    /\ pc = "fetching"
    /\ \E resp \in StoreResponses :
        LET metric == collect_metric(metrics_to_monitor[metric_idx], resp)
        IN  /\ responses' = Append(responses, resp)
            /\ IF NoData(metric)
               THEN cur_metric' = None /\ pc' = "aggregated" /\ UNCHANGED metric_idx
               ELSE cur_metric' = metric /\ pc' = "detecting" /\ UNCHANGED metric_idx
    /\ UNCHANGED <<metrics_to_monitor, llm_enabled, detectors, all_anomalies, next_id,
                   validated, raw_batch, enrich_state, det_vars, run_vars>>

\* a fetch that is tried a second time when it gave no data
FetchMetricRetryOnce ==
    /\ pc = "fetching"
    /\ \E resp \in StoreResponses :
        LET metric == collect_metric(metrics_to_monitor[metric_idx], resp)
        IN  /\ responses' = Append(responses, resp)
            /\ IF NoData(metric)
               THEN /\ cur_metric' = None
                    /\ IF Len(responses) < metric_idx
                       THEN pc' = "fetching" /\ UNCHANGED metric_idx
                       ELSE Advance
               ELSE cur_metric' = metric /\ pc' = "detecting" /\ UNCHANGED metric_idx
    /\ UNCHANGED <<metrics_to_monitor, llm_enabled, detectors, all_anomalies, next_id,
                   validated, raw_batch, enrich_state, det_vars, run_vars>>

\* lines 140-153: fetch the metric; without data, log and go on
FetchMetric ==
    /\ pc = "fetching"
    /\ \E resp \in StoreResponses :
        LET metric == collect_metric(metrics_to_monitor[metric_idx], resp)
        IN  /\ responses' = Append(responses, resp)
            /\ IF NoData(metric)
               THEN cur_metric' = None /\ Advance
               ELSE cur_metric' = metric /\ pc' = "detecting" /\ UNCHANGED metric_idx
    /\ UNCHANGED <<metrics_to_monitor, llm_enabled, detectors, all_anomalies, next_id,
                   validated, raw_batch, enrich_state, det_vars, run_vars>>

\* lines 159-166: run the detectors, extend the batch
DetectMetric ==
    /\ pc = "detecting"
    /\ LET metric_anomalies == detect_anomalies(detectors, cur_metric[1], next_id)
       IN  /\ all_anomalies' = all_anomalies \o metric_anomalies
           /\ next_id' = next_id + Len(metric_anomalies)
    /\ cur_metric' = None
    /\ Advance
    /\ UNCHANGED <<metrics_to_monitor, llm_enabled, detectors, validated, responses,
                   raw_batch, enrich_state, det_vars, run_vars>>

\* line 177: enrichment only when the validator is enabled and there is
\* something to enrich
Aggregated ==
    /\ pc = "aggregated"
    /\ raw_batch' = all_anomalies
    /\ IF llm_enabled /\ all_anomalies # <<>>
       THEN pc' = "enriching" /\ enrich_state' = "running"
       ELSE pc' = "done" /\ enrich_state' = "off"
    /\ validated' = <<>>
    /\ UNCHANGED <<metrics_to_monitor, llm_enabled, detectors, metric_idx, cur_metric,
                   all_anomalies, next_id, responses, det_vars, run_vars>>

\* one turn of the loop of validate_anomalies(anomalies, keep_all=True)
ValidateNext ==
    /\ pc = "enriching"
    /\ Len(validated) < Len(all_anomalies)
    /\ \E outcome \in LlmOutcomes :
           validated' = Append(validated,
               ValidateOne(all_anomalies[Len(validated) + 1], outcome, TRUE))
    /\ UNCHANGED <<pc, metrics_to_monitor, llm_enabled, detectors, metric_idx, cur_metric,
                   all_anomalies, next_id, responses, raw_batch, enrich_state, det_vars, run_vars>>

\* the rest of _enrich_with_llm and the assignment of line 180
FinishEnrich ==
    /\ pc = "enriching"
    /\ Len(validated) >= Len(all_anomalies)
    /\ LET outcome == enrich_with_llm(Flatten(validated), next_id)
       IN  /\ all_anomalies' = AfterEnrichment(all_anomalies, outcome)
           /\ enrich_state' = IF outcome.raised # "no" THEN "raised" ELSE "ok"
    /\ pc' = "done"
    /\ UNCHANGED <<metrics_to_monitor, llm_enabled, detectors, metric_idx, cur_metric,
                   next_id, validated, responses, raw_batch, det_vars, run_vars>>

\* an exception leaves _enrich_with_llm (lines 181-182): the partial result
\* is lost with the frame that held it
EnrichRaises ==
    /\ pc = "enriching"
    /\ all_anomalies' = AfterEnrichment(all_anomalies, Raised("Exception"))
    /\ enrich_state' = "raised"
    /\ pc' = "done"
    /\ UNCHANGED <<metrics_to_monitor, llm_enabled, detectors, metric_idx, cur_metric,
                   next_id, validated, responses, raw_batch, det_vars, run_vars>>

Next ==
    \/ StartCycle
    \/ FetchMetric
    \/ DetectMetric
    \/ Aggregated
    \/ ValidateNext
    \/ FinishEnrich
    \/ EnrichRaises

Spec == Init /\ [][Next]_vars

\* Every call the cycle makes returns, so the cycle takes its next step while
\* it has one.  From "detecting" the only step is DetectMetric, and once
\* validate_anomalies has gone through the batch the only steps are
\* FinishEnrich and EnrichRaises; all of them change pc, so fairness of these
\* steps is stated on pc.
LeaveDetecting == pc = "detecting" /\ pc' \in {"fetching", "aggregated"}

LeaveEnriching ==
    pc = "enriching" /\ Len(validated) >= Len(all_anomalies) /\ pc' = "done"

FairSpec ==
    /\ Spec
    /\ WF_vars(StartCycle \/ FetchMetric \/ Aggregated \/ ValidateNext)
    /\ WF_pc(LeaveDetecting)
    /\ WF_pc(LeaveEnriching)

----------------------------------------------------------------------------
(* MetricsAgent.run: the agent's endless loop around collect_and_analyze,
   the delivery to the orchestrator and the interruptible wait.  The cycle
   itself is the machine above; here only its result matters. *)

MaxCycles == 2
MaxInterval == 2

\* what collect_and_analyze hands to run: a non-empty list, an empty list,
\* or an exception
CycleResults == {"anomalies", "empty", "raised"}

\* how requests.post ends: status 200, another status, RequestException
DeliveryOutcomes == {"200", "non200", "request_exception"}

RunInit ==
    /\ run_pc = "loop"
    /\ shutdown_requested = FALSE
    /\ iteration = 0
    /\ check_interval \in 1..MaxInterval
    /\ wait_left = 0
    /\ cycle_result = "none"
    /\ posts = 0
    /\ delivery = "none"
    /\ OrchIdle
    /\ DetIdle

\* while not shutdown_requested: iteration += 1
LoopTest ==
    /\ run_pc = "loop"
    /\ IF shutdown_requested
          THEN /\ run_pc' = "stopped"
               /\ UNCHANGED <<iteration, cycle_result>>
          ELSE /\ iteration < MaxCycles
               /\ iteration' = iteration + 1
               /\ cycle_result' = "none"
               /\ run_pc' = "collecting"
    /\ UNCHANGED <<shutdown_requested, check_interval, wait_left, posts, delivery,
                   orch_vars, det_vars>>

\* anomalies = self.collector.collect_and_analyze(); a raise goes to the
\* except of run, an empty list to the else branch, both on to the wait
CollectAndAnalyze ==
    /\ run_pc = "collecting"
    /\ \E r \in CycleResults :
          /\ cycle_result' = r
          /\ IF r = "anomalies"
                THEN run_pc' = "sending" /\ UNCHANGED wait_left
                ELSE run_pc' = "waiting" /\ wait_left' = check_interval
    /\ UNCHANGED <<shutdown_requested, iteration, check_interval, posts, delivery,
                   orch_vars, det_vars>>

\* a delivery that posts again after a failure
SendToOrchestratorRetrying ==
    /\ run_pc = "sending"
    /\ posts' = posts + 1
    /\ delivery' \in DeliveryOutcomes
    /\ run_pc' = IF delivery' = "200" \/ posts' > iteration THEN "waiting" ELSE "sending"
    /\ wait_left' = check_interval
    /\ UNCHANGED <<shutdown_requested, iteration, check_interval, cycle_result,
                   orch_vars, det_vars>>

\* _send_to_orchestrator: one requests.post, its outcome logged
SendToOrchestrator ==
    /\ run_pc = "sending"
    /\ posts' = posts + 1
    /\ delivery' \in DeliveryOutcomes
    /\ run_pc' = "waiting"
    /\ wait_left' = check_interval
    /\ UNCHANGED <<shutdown_requested, iteration, check_interval, cycle_result,
                   orch_vars, det_vars>>

\* a wait that sleeps the whole interval without looking at the flag
WaitTickUninterruptible ==
    /\ run_pc = "waiting"
    /\ IF wait_left = 0
          THEN run_pc' = "loop" /\ UNCHANGED wait_left
          ELSE wait_left' = wait_left - 1 /\ UNCHANGED run_pc
    /\ UNCHANGED <<shutdown_requested, iteration, check_interval, cycle_result,
                   posts, delivery, orch_vars, det_vars>>

\* one turn of: for _ in range(check_interval): if shutdown_requested: break;
\* time.sleep(1)
WaitTick ==
    /\ run_pc = "waiting"
    /\ IF wait_left = 0 \/ shutdown_requested
          THEN run_pc' = "loop" /\ UNCHANGED wait_left
          ELSE wait_left' = wait_left - 1 /\ UNCHANGED run_pc
    /\ UNCHANGED <<shutdown_requested, iteration, check_interval, cycle_result,
                   posts, delivery, orch_vars, det_vars>>

\* SIGINT or SIGTERM, at any point of the loop
signal_handler ==
    /\ run_pc \notin {"off", "stopped"}
    /\ ~shutdown_requested
    /\ shutdown_requested' = TRUE
    /\ UNCHANGED <<run_pc, iteration, check_interval, wait_left, cycle_result,
                   posts, delivery, orch_vars, det_vars>>

RunStep == LoopTest \/ CollectAndAnalyze \/ SendToOrchestrator \/ WaitTick

RunNext == RunStep \/ signal_handler

SpecRun == RunInit /\ [][RunNext]_vars

\* the main thread keeps running: every call of the loop returns
FairSpecRun == SpecRun /\ WF_vars(RunStep)

\* One _detect_anomalies call on one Metric, with any of the four detectors
\* enabled and a window_size small enough for PatternDetector to take part.
AggregateConfigs ==
    {[DefaultDetectorsConfig EXCEPT !.spike_detector.enabled = sp,
                                    !.statistical_detector.enabled = st,
                                    !.threshold_detector.enabled = th,
                                    !.pattern_detector.enabled = pa,
                                    !.pattern_detector.window_size = 2] :
        sp \in BOOLEAN, st \in BOOLEAN, th \in BOOLEAN, pa \in BOOLEAN}

AggregateSeriesVals ==
    {<<1, 4>>, <<1, 4, 1, 1>>, <<0, 0, 0, 0, 0, 0, 0, 0, 0, 1, 4>>,
     <<1, 1, 1, 1, 1, 1, 1, 1, 1, 1, 4>>}

\* all four detectors enabled, SpikeDetector with a sensitivity that makes
\* its constructor call raise, PatternDetector with a window_size of 1 that
\* makes its smoothing raise
RaisingConfigs ==
    {[DefaultDetectorsConfig EXCEPT !.spike_detector.sensitivity = s,
                                    !.pattern_detector.window_size = w] :
        s \in {<<4, 5>>, <<3, 2>>}, w \in {1, 2}}

AggregateInputs ==
    [detector : {"all"},
     config : AggregateConfigs \cup RaisingConfigs,
     metric : {SeriesOf(nm, v) : nm \in {<<"a">>, <<"b">>}, v \in AggregateSeriesVals}]

RunDetectAnomalies ==
    /\ det_pc = "ready"
    /\ det_in.detector = "all"
    /\ det_out' = Returned(detect_anomalies(initialize_detectors(det_in.config),
                                            det_in.metric, 0))
    /\ det_pc' = "done"
    /\ UNCHANGED <<det_in, det_prev, exported, orch_vars, run_vars>>

\* collection cycles, and single _detect_anomalies calls
SpecBatch ==
    (Init \/ DetInit(AggregateInputs)) /\ [][(det_pc = "idle" /\ Next) \/ RunDetectAnomalies]_vars

----------------------------------------------------------------------------
(* The collection cycle: what a cycle returns *)

\* the cycle has returned all_anomalies
Returns == pc = "done"

\* C1: when the enrichment stage raises, the cycle returns exactly the
\* anomalies of the aggregated batch, unmodified and in the same order.
EnrichmentFailureKeepsBatch ==
    (Returns /\ enrich_state = "raised") => all_anomalies = raw_batch

\* an enrichment that raised after it had validated part of a batch of two
EnrichmentFailedMidway ==
    /\ Returns
    /\ enrich_state = "raised"
    /\ Len(raw_batch) >= 2
    /\ Len(validated) = 1

\* C2: with enrichment enabled and a batch of N >= 1 anomalies, whatever each
\* LLM call did, the cycle returns N anomalies, the i-th carrying the
\* anomaly_id of the i-th anomaly of the batch.
EnrichmentKeepsEveryAnomaly ==
    (Returns /\ llm_enabled /\ Len(raw_batch) >= 1) =>
        /\ Len(all_anomalies) = Len(raw_batch)
        /\ \A i \in 1..Len(raw_batch) :
               all_anomalies[i].anomaly_id = raw_batch[i].anomaly_id

\* an enrichment that went through although one LLM call raised, one was
\* answered with an error, and one gave an analysis
EnrichedWithMixedOutcomes ==
    /\ Returns
    /\ enrich_state = "ok"
    /\ \E i, j, k \in 1..Len(validated) :
          /\ "llm_model" \notin DOMAIN validated[i][1]
          /\ DictGet(validated[j][1], "llm_analysis") = Some(None)
          /\ DictGet(validated[k][1], "llm_analysis") = Some(Some("analysis"))
    /\ \E i \in 1..Len(all_anomalies) :
          "llm_analysis" \in DOMAIN all_anomalies[i].metadata

\* the number of samples a response of the store carries
SamplesOf(resp) ==
    IF resp.kind = "raise" \/ resp.result = <<>> THEN 0
    ELSE Len(resp.result[1].values)

\* the series a response carries, as the detectors see it
SeriesOfResponse(name, resp) ==
    SeriesAt(name, [i \in 1..SamplesOf(resp) |-> resp.result[1].values[i][2][2]],
                   [i \in 1..SamplesOf(resp) |-> resp.result[1].values[i][1]])

\* the anomalies of the metrics whose fetch returned at least one sample
AnomaliesOfFetched ==
    Stamp(Flatten([i \in 1..Len(responses) |->
              IF SamplesOf(responses[i]) = 0 THEN <<>>
              ELSE detect_anomalies(detectors,
                       SeriesOfResponse(metrics_to_monitor[i], responses[i]), 0)]), 0)

\* C3: a fetch that fails, returns nothing or returns no sample contributes
\* no anomaly and does not end the cycle: every configured metric is fetched,
\* and the batch is exactly the anomalies of the metrics that had a sample.
FailedFetchSkipsOnlyItsMetric ==
    pc = "aggregated" =>
        /\ Len(responses) = Len(metrics_to_monitor)
        /\ all_anomalies = AnomaliesOfFetched

\* a cycle whose first fetch failed and whose second metric gave anomalies
FetchFailedThenAnomalies ==
    /\ pc = "aggregated"
    /\ Len(responses) >= 2
    /\ SamplesOf(responses[1]) = 0
    /\ SamplesOf(responses[2]) > 0
    /\ all_anomalies # <<>>

----------------------------------------------------------------------------
(* The detectors: what a detect call returns *)

DetectDone(kind) == det_pc = "done" /\ det_in.detector = kind

\* the anomalies of det_out at the timestamp of sample k
EmittedAt(k) ==
    {a \in 1..Len(det_out.anomalies) :
        det_out.anomalies[a].timestamp = det_in.metric.values[k].timestamp}

SampleValue(k) == det_in.metric.values[k].value

\* anomalies compared without their ids
SameButId(a, b) == [a EXCEPT !.anomaly_id = 0] = [b EXCEPT !.anomaly_id = 0]

\* C4: no detect call of the four detectors ends on the constructor's
\* confidence check, and every anomaly emitted has 0 <= confidence <= 1.
DetectNeverFailsConfidenceCheck ==
    (det_pc = "done" /\ det_in.detector \in {"spike", "statistical", "threshold", "pattern"}) =>
        /\ det_out.raised # "ValueError"
        /\ \A a \in 1..Len(det_out.anomalies) :
               /\ ConfGeZero(det_out.anomalies[a].confidence)
               /\ ConfLeOne(det_out.anomalies[a].confidence)

\* C5: the constructor raises, and makes no Anomaly, exactly when the
\* confidence is below 0 or above 1; 0 and 1 themselves are accepted.
ConstructorChecksConfidence ==
    DetectDone("anomaly") =>
        LET c == det_in.fields.confidence
            inRange == c.num >= 0 /\ c.num * c.num <= c.den * c.den * c.rad
        IN  IF inRange
            THEN /\ det_out.raised = "no"
                 /\ Len(det_out.anomalies) = 1
                 /\ det_out.anomalies[1].confidence = c
            ELSE /\ det_out.raised = "ValueError"
                 /\ det_out.anomalies = <<>>

\* a construction with confidence 5/4, refused
ConstructionRefusedAboveOne ==
    /\ DetectDone("anomaly")
    /\ det_in.fields.confidence = Conf(5, 4, 1)
    /\ det_out.raised = "ValueError"

\* the pair (values[i - 1], values[i]) changes by at least the minimum
SpikePairMeets(i) ==
    Abs(SampleValue(i) - SampleValue(i - 1)) * 100
        >= det_in.cfg.min_change_percent * Abs(SampleValue(i - 1))

\* C6: on a series of at least 2 samples SpikeDetector emits for a pair
\* (a, b), a # 0, exactly one anomaly if |(b - a) / a * 100| >=
\* min_change_percent and none otherwise; the anomaly has b's timestamp,
\* value b and expected_value a; nothing is emitted when every change is
\* below the minimum.
SpikeEmitsIffThresholdMet ==
    (DetectDone("spike") /\ det_in.cfg.enabled /\ Len(det_in.metric.values) >= 2) =>
        LET n == Len(det_in.metric.values)
            out == det_out.anomalies
        IN  /\ det_out.raised = "no"
            /\ \A i \in 2..n : SampleValue(i - 1) # 0 =>
                  /\ Cardinality(EmittedAt(i)) = (IF SpikePairMeets(i) THEN 1 ELSE 0)
                  /\ \A a \in EmittedAt(i) :
                        /\ out[a].value = SampleValue(i)
                        /\ out[a].expected_value = Some(<<SampleValue(i - 1), 1>>)
            /\ (\A i \in 2..n : SampleValue(i - 1) # 0 /\ ~SpikePairMeets(i)) => out = <<>>

\* a series of three samples: a change of exactly the minimum, emitted, and a
\* change below it, not emitted
SpikeAtExactMinimum ==
    /\ DetectDone("spike")
    /\ det_in.cfg.enabled
    /\ Len(det_in.metric.values) = 3
    /\ SampleValue(1) # 0
    /\ Abs(SampleValue(2) - SampleValue(1)) * 100
           = det_in.cfg.min_change_percent * Abs(SampleValue(1))
    /\ SampleValue(2) # 0
    /\ ~SpikePairMeets(3)
    /\ Len(det_out.anomalies) = 1
    /\ det_out.anomalies[1].timestamp = 2

\* the candidates of the two tests, as constructed
ZScoreCandidates ==
    [i \in 1..Len(DetectZScore(det_in.cfg, det_in.metric)) |->
        DetectZScore(det_in.cfg, det_in.metric)[i].val]

IqrCandidates ==
    [i \in 1..Len(DetectIqr(det_in.cfg, det_in.metric)) |->
        DetectIqr(det_in.cfg, det_in.metric)[i].val]

\* C7: for a timestamp flagged by both the Z-score test and the IQR test,
\* StatisticalDetector emits exactly one anomaly, a candidate of that
\* timestamp whose confidence no other candidate of the timestamp exceeds.
DedupKeepsHigherConfidence ==
    (DetectDone("statistical") /\ Len(det_in.metric.values) >= 10) =>
        LET out == det_out.anomalies
            cands == ZScoreCandidates \o IqrCandidates
        IN  \A i \in 1..Len(ZScoreCandidates), j \in 1..Len(IqrCandidates) :
               ZScoreCandidates[i].timestamp = IqrCandidates[j].timestamp =>
                  LET kept == {a \in 1..Len(out) :
                                  out[a].timestamp = ZScoreCandidates[i].timestamp}
                  IN  /\ Cardinality(kept) = 1
                      /\ \A a \in kept :
                            /\ \E c \in 1..Len(cands) : SameButId(out[a], cands[c])
                            /\ \A c \in 1..Len(cands) :
                                  cands[c].timestamp = out[a].timestamp =>
                                      ConfLe(cands[c].confidence, out[a].confidence)

\* a timestamp flagged by both tests, the IQR candidate, second in the list,
\* more confident than the Z-score candidate and kept
BothTestsFlagIqrKept ==
    /\ DetectDone("statistical")
    /\ Len(det_in.metric.values) >= 10
    /\ \E i \in 1..Len(ZScoreCandidates), j \in 1..Len(IqrCandidates),
          a \in 1..Len(det_out.anomalies) :
          /\ ZScoreCandidates[i].timestamp = IqrCandidates[j].timestamp
          /\ ConfLt(ZScoreCandidates[i].confidence, IqrCandidates[j].confidence)
          /\ det_out.anomalies[a].timestamp = IqrCandidates[j].timestamp
          /\ det_out.anomalies[a].metadata.detection_method = "iqr"

\* the bound set the detector resolved for the series, empty when none
ResolvedBounds ==
    LET r == GetMetricThresholds(det_in.cfg.thresholds, det_in.metric.name)
    IN  IF r = None THEN EmptyDict ELSE r[1]

ClaimedOrder == <<"critical", "warning", "max", "min", "max_rate", "min_rate">>

ClaimedSeverity ==
    [critical |-> "CRITICAL", warning |-> "HIGH", max |-> "HIGH",
     min |-> "MEDIUM", max_rate |-> "HIGH", min_rate |-> "MEDIUM"]

\* the positions of ClaimedOrder whose bound is configured and matched by
\* sample k
MatchedBy(k) ==
    {p \in 1..Len(ClaimedOrder) :
        /\ ClaimedOrder[p] \in DOMAIN ResolvedBounds
        /\ Breached(ClaimedOrder[p], SampleValue(k), ResolvedBounds[ClaimedOrder[p]])}

\* C8: per sample, the first bound that matches in the order critical,
\* warning, max, min, max_rate, min_rate makes the one anomaly of the sample,
\* with severity critical, high, high, medium, high, medium; critical wins
\* over warning when both match.
FirstMatchDecides ==
    (DetectDone("threshold") /\ det_in.cfg.enabled) =>
        \A k \in 1..Len(det_in.metric.values) :
            IF MatchedBy(k) = {} THEN EmittedAt(k) = {}
            ELSE LET p == CHOOSE p \in MatchedBy(k) : \A q \in MatchedBy(k) : p <= q
                 IN  /\ Cardinality(EmittedAt(k)) = 1
                     /\ \A a \in EmittedAt(k) :
                           /\ det_out.anomalies[a].metadata.threshold_type = ClaimedOrder[p]
                           /\ det_out.anomalies[a].severity = ClaimedSeverity[ClaimedOrder[p]]

\* bounds {warning: 0, critical: 1} and a sample above both: critical
CriticalWinsOverWarning ==
    /\ DetectDone("threshold")
    /\ det_in.cfg.enabled
    /\ DOMAIN ResolvedBounds = {"warning", "critical"}
    /\ ResolvedBounds["warning"] < ResolvedBounds["critical"]
    /\ \E k \in 1..Len(det_in.metric.values) :
          /\ SampleValue(k) > ResolvedBounds["critical"]
          /\ \E a \in EmittedAt(k) : det_out.anomalies[a].severity = "CRITICAL"

ClaimedBreach(kind, value, bound) ==
    IF kind \in {"min", "min_rate"} THEN value < bound ELSE value >= bound

\* C9, as stated: a sample is reported exactly when some configured bound
\* is breached, an upper-type bound (critical, warning, max, max_rate) by
\* value >= bound and a lower-type bound (min, min_rate) by value < bound.
UpperBoundsAllInclusive ==
    (DetectDone("threshold") /\ det_in.cfg.enabled) =>
        \A k \in 1..Len(det_in.metric.values) :
            EmittedAt(k) # {} <=>
                \E kind \in DOMAIN ResolvedBounds :
                    ClaimedBreach(kind, SampleValue(k), ResolvedBounds[kind])

CodedBreach(kind, value, bound) ==
    IF kind \in {"min", "min_rate"} THEN value < bound
    ELSE IF kind \in {"max", "max_rate"} THEN value > bound
    ELSE value >= bound

\* C9, amended: critical and warning are breached by value >= bound, max and
\* max_rate by value > bound only, min and min_rate by value < bound; a
\* sample is reported exactly when some configured bound is breached, and
\* the bound the anomaly names is breached.
MaxBoundsStrict ==
    (DetectDone("threshold") /\ det_in.cfg.enabled) =>
        \A k \in 1..Len(det_in.metric.values) :
            /\ EmittedAt(k) # {} <=>
                  \E kind \in DOMAIN ResolvedBounds :
                      CodedBreach(kind, SampleValue(k), ResolvedBounds[kind])
            /\ \A a \in EmittedAt(k) :
                  CodedBreach(det_out.anomalies[a].metadata.threshold_type,
                              SampleValue(k),
                              det_out.anomalies[a].metadata.threshold_value)

\* only a max bound, a sample equal to it, not reported, and a sample above
\* it, reported
SampleEqualToMaxNotReported ==
    /\ DetectDone("threshold")
    /\ det_in.cfg.enabled
    /\ DOMAIN ResolvedBounds = {"max"}
    /\ \E k, m \in 1..Len(det_in.metric.values) :
          /\ SampleValue(k) = ResolvedBounds["max"]
          /\ EmittedAt(k) = {}
          /\ SampleValue(m) > ResolvedBounds["max"]
          /\ EmittedAt(m) # {}

\* the entries of the configuration an exact lookup and a pattern lookup find
ExactEntries ==
    {i \in 1..Len(det_in.cfg.thresholds) :
        det_in.cfg.thresholds[i][1] = det_in.metric.name}

PatternEntries ==
    {i \in 1..Len(det_in.cfg.thresholds) :
        /\ HasStar(det_in.cfg.thresholds[i][1])
        /\ ReMatch(det_in.cfg.thresholds[i][1], det_in.metric.name)}

\* what checking every sample against one bound set gives
CheckedAgainst(bounds) ==
    Collect(Flatten([k \in 1..Len(det_in.metric.values) |->
                CheckThresholds(det_in.metric, SampleValue(k),
                                det_in.metric.values[k].timestamp, bounds)])).anomalies

\* C10: the samples are checked against the entry of the metric's own name
\* when there is one, whatever the patterns; else against the first entry,
\* in configuration order, whose key has a '*' and matches the name; with
\* neither, detect returns the empty list and does not raise.
BoundResolution ==
    (DetectDone("threshold") /\ det_in.cfg.enabled) =>
        /\ det_out.raised = "no"
        /\ IF ExactEntries # {}
           THEN \A i \in ExactEntries :
                    det_out.anomalies = CheckedAgainst(det_in.cfg.thresholds[i][2])
           ELSE IF PatternEntries # {}
           THEN LET i == CHOOSE i \in PatternEntries : \A j \in PatternEntries : i <= j
                IN  det_out.anomalies = CheckedAgainst(det_in.cfg.thresholds[i][2])
           ELSE det_out.anomalies = <<>>

\* a pattern configured before the exact key, both matching, with bound sets
\* that give different anomalies: the exact entry's anomaly is emitted
ExactKeyBeatsEarlierPattern ==
    /\ DetectDone("threshold")
    /\ det_in.cfg.enabled
    /\ Len(det_in.cfg.thresholds) = 2
    /\ PatternEntries = {1}
    /\ ExactEntries = {2}
    /\ Len(det_out.anomalies) = 1
    /\ CheckedAgainst(det_in.cfg.thresholds[1][2]) # det_out.anomalies

----------------------------------------------------------------------------
(* The detectors on degenerate input *)

\* the least number of samples the detector of the run asks for
MinPointsAsked ==
    CASE det_in.detector = "spike" -> 2
      [] det_in.detector = "statistical" -> 10
      [] det_in.detector = "pattern" -> 2 * det_in.cfg.window_size
      [] OTHER -> 0

\* C11: SpikeDetector below 2 samples, StatisticalDetector below 10 and
\* PatternDetector below 2 * window_size return the empty list and do not
\* raise.
InsufficientDataIsEmpty ==
    (det_pc = "done" /\ det_in.detector \in {"spike", "statistical", "pattern"}
        /\ Len(det_in.metric.values) < MinPointsAsked) =>
        det_out = [raised |-> "no", anomalies |-> <<>>]

\* StatisticalDetector on 9 samples of which one is far off: nothing
NineSamplesWithOutlier ==
    /\ DetectDone("statistical")
    /\ det_in.cfg.enabled
    /\ Len(det_in.metric.values) = 9
    /\ \E k \in 1..9 : SampleValue(k) = 500
    /\ det_out = [raised |-> "no", anomalies |-> <<>>]

\* the samples of the run are all finite
AllFinite == \A k \in 1..Len(det_in.metric.values) : SampleValue(k) # NaN

\* the samples at positions a..b are finite and equal: their deviation is 0
FlatRange(a, b) ==
    \A i \in a..b : SampleValue(i) # NaN /\ SampleValue(i) = SampleValue(a)

\* the anomalies of the run that the given test produced
EmittedBy(method) ==
    SelectSeq(det_out.anomalies, LAMBDA a : a.metadata.detection_method = method)

----------------------------------------------------------------------------
(* One detector called twice on one Metric *)

----------------------------------------------------------------------------
(* The batch before enrichment *)

\* the order in which _initialize_detectors appends the detectors
DetectorOrder == <<"spike", "statistical", "threshold", "pattern">>

\* what the detector of the given kind returns on the metric: nothing when
\* the detector is not among dets or its call raised
OutputOf(dets, kind, metric) ==
    IF \A j \in 1..Len(dets) : dets[j].kind # kind THEN <<>>
    ELSE LET cfg == dets[CHOOSE j \in 1..Len(dets) : dets[j].kind = kind].cfg
             out == CASE kind = "spike" -> SpikeDetect(cfg, metric)
                      [] kind = "statistical" -> StatisticalDetect(cfg, metric)
                      [] kind = "threshold" -> ThresholdDetect(cfg, metric)
                      [] kind = "pattern" -> PatternDetect(cfg, metric)
         IN  IF out.raised # "no" THEN <<>> ELSE out.anomalies

\* the outputs of the detectors on one metric, in DetectorOrder
OutputsInOrder(dets, metric) ==
    Flatten([k \in 1..Len(DetectorOrder) |-> OutputOf(dets, DetectorOrder[k], metric)])

\* the outputs of the detectors, metric after metric in configured order
PlainConcatenation ==
    Flatten([i \in 1..Len(responses) |->
        IF SamplesOf(responses[i]) = 0 THEN <<>>
        ELSE OutputsInOrder(detectors,
                 SeriesOfResponse(metrics_to_monitor[i], responses[i]))])

\* two lists of anomalies with the same anomalies in the same order
SameAnomalies(xs, ys) ==
    /\ Len(xs) = Len(ys)
    /\ \A i \in 1..Len(xs) : SameButId(xs[i], ys[i])

\* C14: the batch before enrichment is the concatenation, metric by metric
\* and within a metric in the order spike, statistical, threshold, pattern,
\* of what each enabled detector returned: no anomaly removed, merged or
\* altered.
BatchIsPlainConcatenation ==
    /\ pc = "aggregated" => SameAnomalies(all_anomalies, PlainConcatenation)
    /\ DetectDone("all") =>
          SameAnomalies(det_out.anomalies,
                        OutputsInOrder(initialize_detectors(det_in.config), det_in.metric))

\* the anomalies of det_out at one timestamp, by detector
DetectorsAt(t) ==
    [i \in 1..Len(SelectSeq(det_out.anomalies, LAMBDA a : a.timestamp = t)) |->
        SelectSeq(det_out.anomalies, LAMBDA a : a.timestamp = t)[i].detector_name]

\* the four detectors each report the last sample of one metric, and the
\* four anomalies are in the batch in the order of the detectors
FourDetectorsSameSampleAllKept ==
    /\ DetectDone("all")
    /\ DetectorsAt(Len(det_in.metric.values)) =
          <<"SpikeDetector", "StatisticalDetector", "ThresholdDetector", "PatternDetector">>

----------------------------------------------------------------------------
(* SpikeDetector *)

\* an enabled SpikeDetector with min_change_percent 50 has run on the series
\* 100, 100, 100, 100, 300, 100, 100
SpikeUpRun ==
    /\ DetectDone("spike")
    /\ det_in.cfg.enabled
    /\ det_in.cfg.min_change_percent = 50
    /\ det_in.metric = SpikeUpSeries

\* the anomalies of det_out of the given type
OfType(type) == SelectSeq(det_out.anomalies, LAMBDA a : a.anomaly_type = type)

\* C15 as stated: exactly one spike anomaly, at the 4th-minute sample, value
\* 300, expected value 100, severity high.
SpikeUpIsOneHighSpike ==
    SpikeUpRun =>
        /\ Len(OfType("SPIKE")) = 1
        /\ OfType("SPIKE")[1].timestamp = 4
        /\ OfType("SPIKE")[1].value = 300
        /\ OfType("SPIKE")[1].expected_value = Some(<<100, 1>>)
        /\ OfType("SPIKE")[1].severity = "HIGH"

\* C15: exactly one spike anomaly, at the 4th-minute sample, value 300,
\* expected value 100, severity critical (the change is 200 percent); it is
\* followed by one drop anomaly at the 5th-minute sample, value 100, expected
\* value 300, severity low, and there is no other anomaly.
SpikeUpIsCriticalSpikeThenDrop ==
    SpikeUpRun =>
        /\ det_out.raised = "no"
        /\ Len(det_out.anomalies) = 2
        /\ Len(OfType("SPIKE")) = 1
        /\ det_out.anomalies[1].anomaly_type = "SPIKE"
        /\ det_out.anomalies[1].timestamp = 4
        /\ det_out.anomalies[1].value = 300
        /\ det_out.anomalies[1].expected_value = Some(<<100, 1>>)
        /\ det_out.anomalies[1].severity = "CRITICAL"
        /\ det_out.anomalies[2].anomaly_type = "DROP"
        /\ det_out.anomalies[2].timestamp = 5
        /\ det_out.anomalies[2].value = 100
        /\ det_out.anomalies[2].expected_value = Some(<<300, 1>>)
        /\ det_out.anomalies[2].severity = "LOW"

\* the run of the example with the sensitivity of the test, 0.8
SpikeUpRunDone ==
    /\ SpikeUpRun
    /\ det_in.cfg.sensitivity = <<4, 5>>
    /\ det_out.anomalies # <<>>

\* |percent_change| of the pair an anomaly of SpikeDetector reports, as the
\* fraction num / den: 100 when the earlier sample is 0
ChangeNum(a) ==
    IF a.expected_value[1][1] = 0 THEN 100
    ELSE Abs(a.value - a.expected_value[1][1]) * 100

ChangeDen(a) ==
    IF a.expected_value[1][1] = 0 THEN 1 ELSE Abs(a.expected_value[1][1])

SeverityRank(severity) ==
    CASE severity = "LOW" -> 1
      [] severity = "MEDIUM" -> 2
      [] severity = "HIGH" -> 3
      [] severity = "CRITICAL" -> 4

\* C16: the severity of an anomaly of SpikeDetector is critical when
\* |percent_change| >= 200, high when it is >= 100 and < 200, medium when it
\* is >= 75 and < 100, low otherwise; of two anomalies the one with the
\* larger |percent_change| never has the lower severity.
SpikeSeverityBands ==
    DetectDone("spike") =>
        /\ \A i \in 1..Len(det_out.anomalies) :
              LET a == det_out.anomalies[i]
                  n == ChangeNum(a)
                  d == ChangeDen(a)
              IN  a.severity =
                      IF n >= 200 * d THEN "CRITICAL"
                      ELSE IF n >= 100 * d THEN "HIGH"
                      ELSE IF n >= 75 * d THEN "MEDIUM"
                      ELSE "LOW"
        /\ \A i, j \in 1..Len(det_out.anomalies) :
              LET a == det_out.anomalies[i]
                  b == det_out.anomalies[j]
              IN  ChangeNum(a) * ChangeDen(b) <= ChangeNum(b) * ChangeDen(a) =>
                      SeverityRank(a.severity) <= SeverityRank(b.severity)

\* a run that reports a change of exactly 75 percent as medium and a smaller
\* change as low
MediumAtSeventyFiveAboveLow ==
    /\ DetectDone("spike")
    /\ Len(det_out.anomalies) = 2
    /\ \E i, j \in 1..2 :
          /\ ChangeNum(det_out.anomalies[i]) = 75 * ChangeDen(det_out.anomalies[i])
          /\ det_out.anomalies[i].severity = "MEDIUM"
          /\ ChangeNum(det_out.anomalies[j]) < 75 * ChangeDen(det_out.anomalies[j])
          /\ det_out.anomalies[j].severity = "LOW"

\* C17: in SpikeDetector a pair whose earlier sample is 0 emits nothing when
\* the later sample is 0 too; when the later sample is not 0 it emits one
\* anomaly exactly when 100 >= min_change_percent, of type spike and with
\* expected value 0; detect does not raise on such a pair.
ChangeFromZero ==
    (DetectDone("spike") /\ det_in.cfg.enabled) =>
        \A i \in 2..Len(det_in.metric.values) :
            SampleValue(i - 1) = 0 =>
                /\ det_out.raised = "no"
                /\ SampleValue(i) = 0 => EmittedAt(i) = {}
                /\ SampleValue(i) # 0 =>
                      /\ Cardinality(EmittedAt(i)) =
                            IF 100 >= det_in.cfg.min_change_percent THEN 1 ELSE 0
                      /\ \A k \in EmittedAt(i) :
                            /\ det_out.anomalies[k].anomaly_type = "SPIKE"
                            /\ det_out.anomalies[k].expected_value = Some(<<0, 1>>)
                            /\ det_out.anomalies[k].value = SampleValue(i)

\* from 0 to a negative value with min_change_percent 100: reported, as a spike
ZeroToNegativeIsSpike ==
    /\ DetectDone("spike")
    /\ det_in.cfg.enabled
    /\ det_in.cfg.min_change_percent = 100
    /\ \E i \in 2..Len(det_in.metric.values) :
          /\ SampleValue(i - 1) = 0
          /\ SampleValue(i) < 0
          /\ \E k \in EmittedAt(i) : det_out.anomalies[k].anomaly_type = "SPIKE"

----------------------------------------------------------------------------
(* The records sent downstream *)

\* the category the fixed table gives for the detector of the run
CategoryOfProducer ==
    CASE det_in.detector = "spike" -> "performance"
      [] det_in.detector = "statistical" -> "performance"
      [] det_in.detector = "threshold" -> "capacity"
      [] det_in.detector = "pattern" -> "availability"

\* C18: the record of every anomaly a detector emitted, of any kind including
\* drop, carries as suggested_category the table's category of that
\* detector.
SuggestedCategoryIsProducers ==
    det_pc = "exported" =>
        \A i \in 1..Len(exported[1]) :
            exported[1][i].suggested_category = CategoryOfProducer

\* C19: every anomaly a detector created has as labels the label set of the
\* sample that triggered it, and so has its record.
LabelsCopiedFromSample ==
    det_pc = "exported" =>
        \A i \in 1..Len(det_out.anomalies) :
            \A k \in 1..Len(det_in.metric.values) :
                det_in.metric.values[k].timestamp = det_out.anomalies[i].timestamp =>
                    /\ det_out.anomalies[i].labels = det_in.metric.values[k].labels
                    /\ exported[1][i].labels = det_in.metric.values[k].labels

----------------------------------------------------------------------------
(* StatisticalDetector *)

\* StatisticalDetector with its default configuration has run on the series
\* 50, 51, 49, 50, 52, 51, 50, 49, 51, 500
TenValuesRun ==
    /\ DetectDone("statistical")
    /\ det_in.cfg = [enabled |-> TRUE, z_score_threshold |-> <<3, 1>>,
                     iqr_multiplier |-> <<3, 2>>]
    /\ det_in.metric = SeriesOf(<<"a">>, <<50, 51, 49, 50, 52, 51, 50, 49, 51, 500>>)

\* C20: on the series 50, 51, 49, 50, 52, 51, 50, 49, 51, 500 the
\* StatisticalDetector with default configuration returns exactly one
\* anomaly, at the last sample, of type statistical_outlier.
TenValuesOneOutlier ==
    TenValuesRun =>
        /\ det_out.raised = "no"
        /\ Len(det_out.anomalies) = 1
        /\ det_out.anomalies[1].timestamp = det_in.metric.values[10].timestamp
        /\ det_out.anomalies[1].value = 500
        /\ AnomalyTypeValue[det_out.anomalies[1].anomaly_type] = "statistical_outlier"

\* the run of the example: the IQR test alone reports the last sample
TenValuesIqrReports ==
    /\ TenValuesRun
    /\ ZScoreCandidates = <<>>
    /\ Len(IqrCandidates) = 1
    /\ Len(det_out.anomalies) = 1
    /\ det_out.anomalies[1].metadata.detection_method = "iqr"

----------------------------------------------------------------------------
(* PatternDetector: the moving-average test *)

\* the window_size samples before position p
TrailingWindow(p) ==
    [k \in 1..det_in.cfg.window_size |-> SampleValue(p - det_in.cfg.window_size + k - 1)]

\* window_size * |value - moving_average| at position p
TrailingDev(p) ==
    Abs(det_in.cfg.window_size * SampleValue(p) - SumSeq(TrailingWindow(p)))

\* the moving-average anomalies of det_out at the timestamp of sample p
MovingAverageAt(p) ==
    SelectSeq(det_out.anomalies,
              LAMBDA a : /\ a.metadata.detection_method = "moving_average"
                         /\ a.timestamp = det_in.metric.values[p].timestamp)

\* the positions the test looks at: finite samples, deviation of the window not 0
MovingAveragePositions ==
    {p \in (det_in.cfg.window_size + 1)..Len(det_in.metric.values) :
        /\ SampleValue(p) # NaN
        /\ \A k \in 1..det_in.cfg.window_size : TrailingWindow(p)[k] # NaN
        /\ VarNum(TrailingWindow(p)) # 0}

\* d > 2.5 flags; with dev = window_size * |value - average| and
\* v = window_size^2 * variance, d^2 = dev^2 / v
FlaggedExactlyAboveTwoAndHalf ==
    \A p \in MovingAveragePositions :
        Len(MovingAverageAt(p)) =
            IF 4 * TrailingDev(p) * TrailingDev(p) > 25 * VarNum(TrailingWindow(p))
            THEN 1 ELSE 0

\* C21: the moving-average test flags a sample exactly when d > 2.5, d taken
\* over the window_size samples before it; a flagged sample is high when
\* d >= 4.0, medium when d >= 3.0 and < 4.0, low otherwise, and its
\* confidence is min(d / 5, 1.0).
MovingAverageBandsInclusive ==
    (DetectDone("pattern") /\ det_out.raised = "no" /\ det_in.cfg.enabled
        /\ Len(det_in.metric.values) >= 2 * det_in.cfg.window_size) =>
        /\ FlaggedExactlyAboveTwoAndHalf
        /\ \A p \in MovingAveragePositions :
              \A i \in 1..Len(MovingAverageAt(p)) :
                  LET dev == TrailingDev(p)
                      v == VarNum(TrailingWindow(p))
                      a == MovingAverageAt(p)[i]
                  IN  /\ a.severity =
                            IF dev * dev >= 16 * v THEN "HIGH"
                            ELSE IF dev * dev >= 9 * v THEN "MEDIUM"
                            ELSE "LOW"
                      /\ a.confidence =
                            IF dev * dev >= 25 * v THEN ConfOne ELSE Conf(dev, 5, v)

----------------------------------------------------------------------------
(* The course of one collection cycle *)

\* the positions a step may lead to from each position
CycleOrder ==
    [idle |-> {"fetching"},
     fetching |-> {"fetching", "detecting", "aggregated"},
     detecting |-> {"fetching", "aggregated"},
     aggregated |-> {"enriching", "done"},
     enriching |-> {"enriching", "done"},
     done |-> {}]

\* one step of a cycle without retries
CycleStep ==
    /\ pc' \in CycleOrder[pc]
    /\ \/ responses' = responses
       \/ Len(responses') = Len(responses) + 1
    /\ (pc = "fetching") <=> (Len(responses') = Len(responses) + 1)
    /\ pc = "fetching" => Len(responses) = metric_idx - 1
    /\ pc' = "detecting" => SamplesOf(responses'[Len(responses')]) > 0
    /\ (pc = "fetching" /\ SamplesOf(responses'[Len(responses')]) = 0) => pc' # "detecting"
    /\ pc' = "aggregated" => Len(responses') = Len(metrics_to_monitor)
    /\ enrich_state' # enrich_state =>
          \/ enrich_state = "off" /\ enrich_state' = "running" /\ pc = "aggregated"
          \/ enrich_state = "running" /\ enrich_state' \in {"ok", "raised"} /\ pc' = "done"

\* C22: a cycle goes Idle, Fetching, Detecting (per metric), Aggregated,
\* optionally Enriching, Done without retries: each configured metric is
\* fetched exactly once, the detectors run only on a fetch that returned a
\* sample, enrichment starts at most once and only after the last metric,
\* and the cycle reaches Done.
CycleRunsOnceAndReturns == [][CycleStep]_vars /\ <>(pc = "done")

\* a finished cycle whose first fetch failed and whose enrichment ran
CycleDoneAfterFailedFetchAndEnrichment ==
    /\ pc = "done"
    /\ Len(responses) = Len(metrics_to_monitor)
    /\ Len(responses) >= 2
    /\ responses[1].kind = "raise"
    /\ enrich_state = "ok"

----------------------------------------------------------------------------
(* The Series a detector is given *)

\* the anomaly reports a sample of the series, with that sample's timestamp
ReportsSampleOf(a, metric) ==
    \E k \in 1..Len(metric.values) :
        /\ metric.values[k].timestamp = a.timestamp
        /\ metric.values[k].value = a.value

\* C23: a detect call leaves the Series as it was (same samples in the same
\* order with the same timestamps, values and labels), and every anomaly it
\* returns has the timestamp and the value of one sample of the Series.
SeriesUntouched ==
    [][/\ det_in' = det_in
       /\ \A i \in 1..Len(det_out'.anomalies) :
             ReportsSampleOf(det_out'.anomalies[i], det_in.metric)]_vars

\* a PatternDetector run that reported a trend reversal
TrendReversalReported ==
    /\ DetectDone("pattern")
    /\ \E i \in 1..Len(det_out.anomalies) :
          /\ det_out.anomalies[i].metadata.detection_method = "trend_change"
          /\ ReportsSampleOf(det_out.anomalies[i], det_in.metric)

----------------------------------------------------------------------------
(* C24 *)

\* the iteration at hand met a failure: its cycle raised, or its delivery
\* ended in a non-200 status or a RequestException
IterationFailed ==
    /\ run_pc = "waiting"
    /\ \/ cycle_result = "raised"
       \/ cycle_result = "anomalies" /\ delivery \in {"non200", "request_exception"}

FailureStep ==
    /\ posts' # posts =>
          /\ run_pc = "sending"
          /\ cycle_result = "anomalies"
          /\ posts' = posts + 1
          /\ run_pc' = "waiting"
    /\ (run_pc' = "sending" /\ run_pc # "sending") => run_pc = "collecting"
    /\ (run_pc' = "collecting" /\ run_pc # "collecting") => iteration' = iteration + 1
    /\ run_pc' = "stopped" => shutdown_requested

\* C24: in the run loop a failed delivery (request exception or non-200
\* answer) or an exception inside a cycle does not end the loop and is not
\* retried within the iteration: the loop stops only on a shutdown request,
\* each iteration makes at most one post and only for a cycle that gave at
\* least one anomaly, and after a failed iteration the next iteration begins
\* unless shutdown is requested.
FailedIterationLoopGoesOn ==
    /\ [][FailureStep]_vars
    /\ \A c \in 1..(MaxCycles - 1) :
          (iteration = c /\ IterationFailed) ~> (shutdown_requested \/ iteration = c + 1)

NextCycleAfterFailedDelivery ==
    /\ run_pc = "collecting"
    /\ iteration >= 2
    /\ posts = 1
    /\ delivery \in {"non200", "request_exception"}
    /\ ~shutdown_requested

----------------------------------------------------------------------------
(* C25 *)

\* C25: every spike anomaly of SpikeDetector has a value above its
\* expected_value and every drop anomaly a value below it, whatever the signs
\* of the samples.
SpikeAboveDropBelowExpected ==
    DetectDone("spike") =>
        \A i \in 1..Len(det_out.anomalies) :
            LET a == det_out.anomalies[i] IN
            /\ a.anomaly_type = "SPIKE" => a.value > a.expected_value[1][1]
            /\ a.anomaly_type = "DROP" => a.value < a.expected_value[1][1]

----------------------------------------------------------------------------
(* C26 *)

\* the candidates of both tests, the Z-score ones first
BothTestsCandidates == ZScoreCandidates \o IqrCandidates

\* index in the candidate list of the first candidate of timestamp ts
FirstCandidateAt(ts) ==
    CHOOSE c \in 1..Len(BothTestsCandidates) :
        /\ BothTestsCandidates[c].timestamp = ts
        /\ \A d \in 1..(c - 1) : BothTestsCandidates[d].timestamp # ts

----------------------------------------------------------------------------
(* C27 *)

\* the detectors of dets whose detect call on the metric raises
RaisingOn(dets, metric) ==
    {i \in 1..Len(dets) : Detect(dets[i], metric).raised # "no"}

\* what the detectors that do not raise return on the metric, in their order
SurvivorsOutput(dets, metric) ==
    LET ok == SelectSeq(dets, LAMBDA d : Detect(d, metric).raised = "no")
    IN  Flatten([i \in 1..Len(ok) |-> Detect(ok[i], metric).anomalies])

DetectorFailureStep ==
    /\ (det_pc = "ready" /\ det_in.detector = "all") =>
          SameAnomalies(det_out'.anomalies,
                        SurvivorsOutput(initialize_detectors(det_in.config), det_in.metric))
    /\ pc = "detecting" =>
          /\ pc' \in {"fetching", "aggregated"}
          /\ Len(all_anomalies') >= Len(all_anomalies)
          /\ SubSeq(all_anomalies', 1, Len(all_anomalies)) = all_anomalies
          /\ SameAnomalies(SubSeq(all_anomalies', Len(all_anomalies) + 1, Len(all_anomalies')),
                           SurvivorsOutput(detectors, cur_metric[1]))

\* C27: when a detector raises on a metric only its own contribution is
\* lost: what the detectors before it returned is kept, the detectors after
\* it still run, and the cycle goes on to the next metric (or to the end of
\* the metric loop).
DetectorFailureLosesOnlyItsOwn == [][DetectorFailureStep]_vars

\* a cycle over two metrics in which SpikeDetector, the first detector,
\* raised on the first metric: the batch holds what ThresholdDetector, a later
\* detector, reported on that metric, and the second metric was fetched with
\* samples and went through the detectors
CycleWentOnAfterDetectorRaised ==
    /\ pc = "aggregated"
    /\ Len(responses) = 2
    /\ SamplesOf(responses[1]) > 0
    /\ SamplesOf(responses[2]) > 0
    /\ 1 \in RaisingOn(detectors, SeriesOfResponse(metrics_to_monitor[1], responses[1]))
    /\ \E a \in 1..Len(all_anomalies) :
          /\ all_anomalies[a].metric_name = SeriesOfResponse(metrics_to_monitor[1], responses[1]).name
          /\ all_anomalies[a].detector_name = "ThresholdDetector"

----------------------------------------------------------------------------
(* C28 *)

\* the pattern, '*' standing for any run of characters, matches the whole name
RECURSIVE WholeNameMatch(_, _)
WholeNameMatch(pattern, name) ==
    IF pattern = <<>> THEN name = <<>>
    ELSE IF Head(pattern) = "*"
         THEN \E k \in 0..Len(name) :
                  WholeNameMatch(Tail(pattern), SubSeq(name, k + 1, Len(name)))
         ELSE /\ name # <<>>
              /\ Head(name) = Head(pattern)
              /\ WholeNameMatch(Tail(pattern), Tail(name))

\* C28: a name that is no key of the table resolves through a wildcard
\* pattern only when the pattern matches the entire name; a name that begins
\* with a match and goes on with further characters does not resolve, and
\* ThresholdDetector reports nothing for it.
WildcardMatchesWholeNameOnly ==
    DetectDone("threshold") =>
        LET table == det_in.cfg.thresholds
            name == det_in.metric.name
        IN  (/\ \A i \in 1..Len(table) : table[i][1] # name
             /\ \A i \in 1..Len(table) :
                   HasStar(table[i][1]) => ~WholeNameMatch(table[i][1], name))
            => /\ GetMetricThresholds(table, name) = None
               /\ det_out.anomalies = <<>>

----------------------------------------------------------------------------
(* C29 *)

ShutdownStep ==
    shutdown_requested =>
        /\ shutdown_requested'
        /\ iteration' = iteration
        /\ run_pc = "loop" => run_pc' = "stopped"
        /\ run_pc = "collecting" => run_pc' \in {"sending", "waiting"}
        /\ run_pc = "sending" => run_pc' = "waiting" /\ posts' = posts + 1
        /\ run_pc = "waiting" => run_pc' = "loop" /\ wait_left' = wait_left

\* C29: once shutdown_requested is set it is never reset and the run loop
\* begins no further iteration: the cycle in progress is completed (its
\* delivery included), the wait is left at its next one-second turn without
\* sleeping again, the loop test ends the loop, and the loop does end.
ShutdownEndsLoopAfterCurrentCycle ==
    /\ [][ShutdownStep]_vars
    /\ shutdown_requested ~> (run_pc = "stopped")

\* the loop has ended after a signal that came during the wait: one of the
\* two turns of the wait was still to be made
StoppedWithWaitAbandoned ==
    /\ run_pc = "stopped"
    /\ shutdown_requested
    /\ iteration >= 1
    /\ 0 < wait_left
    /\ wait_left < check_interval

----------------------------------------------------------------------------
(* C30 *)

\* the entries of a table whose key is not the name
OtherEntries(table, name) == SelectSeq(table, LAMBDA e : e[1] # name)

\* C30: after add_threshold(m, ...) the table has one entry for m whose
\* bounds are exactly the arguments that were not None (whatever m had
\* before, rate bounds included, is gone), the entries of the other names and
\* patterns are as before, and a detect call on a metric named m that follows
\* reports what the new bounds alone give.
AddThresholdReplacesBounds ==
    "added" \in DOMAIN det_in =>
        LET ad == det_in.added
            table == det_in.cfg.thresholds
            at == {i \in 1..Len(table) : table[i][1] = ad.metric_name}
            given == {k \in AddKeys : ad[k] # None}
        IN  /\ Cardinality(at) = 1
            /\ \A i \in at :
                  /\ DOMAIN table[i][2] = given
                  /\ \A k \in given : table[i][2][k] = ad[k][1]
            /\ OtherEntries(table, ad.metric_name) = OtherEntries(ad.before, ad.metric_name)
            /\ (det_pc = "done" /\ det_in.metric.name = ad.metric_name) =>
                  det_out = ThresholdDetect(
                                [enabled |-> TRUE,
                                 thresholds |-> << <<ad.metric_name,
                                                     [k \in given |-> ad[k][1]]>> >>],
                                det_in.metric)

\* the name had rate bounds and a warning bound; add_threshold gave it a min
\* bound only, and the detect call that followed reported the breach of min
\* and nothing else
RateBoundsReplacedByMin ==
    /\ det_pc = "done"
    /\ "added" \in DOMAIN det_in
    /\ det_in.added.metric_name = det_in.metric.name
    /\ \E i \in 1..Len(det_in.added.before) :
          /\ det_in.added.before[i][1] = det_in.metric.name
          /\ DOMAIN det_in.added.before[i][2] = {"max_rate", "warning"}
    /\ {k \in AddKeys : det_in.added[k] # None} = {"min"}
    /\ Len(det_out.anomalies) = 1
    /\ det_out.anomalies[1].metadata.threshold_type = "min"
====
